---- MODULE Spec2Model ----
(***************************************************************************)
(* Model of the documentation retrieval engine: the SQLite hybrid store   *)
(* (documents table, FTS5 lexical index, sqlite-vec vector index) and the *)
(* search paths built on it.                                               *)
(*                                                                         *)
(* Text is modelled as a sequence of one-character strings, so that the    *)
(* code's string operations (strip, split, lower, re.sub, concatenation)   *)
(* are computed and not assumed.  Python's None is the one-element         *)
(* sequence None below, which is no text of the alphabet.                  *)
(*                                                                         *)
(* An embedding is the vector (x, 0, ..., 0) of length dim, written        *)
(* [dim |-> n, x |-> i]; the L2 distance of two such vectors of the same   *)
(* length is |x1 - x2|.                                                    *)
(***************************************************************************)
EXTENDS Integers, Sequences, FiniteSets, TLC

VARIABLES
    db,        \* the committed database: documents, documents_fts, documents_vec
    last,      \* the last store call and what it did, with its position pc;
               \* also the run of index_documents, and the rerank call of a
               \* second thread
    search_pc, \* position of the call in flight: "idle", "done", or the step
               \* it waits at ("keyword", "pool", "load", "predict", "get")
    search_in, \* arguments of the call in flight
    semantic_results, \* rows of the semantic SELECT of the search in flight
    keyword_results,  \* rows of the keyword SELECT of the search in flight
    sem_seen,  \* the committed database the semantic SELECT read
    kw_seen,   \* the committed database the keyword SELECT read
    results,   \* what the last finished search call returned
    CrossEncoder, \* reranker.py's name CrossEncoder: the class, or None
    rerankers, \* the Reranker instances the process holds
    constructed \* how many CrossEncoder models the process has constructed

vars == <<db, last, search_pc, search_in, semantic_results, keyword_results,
          sem_seen, kw_seen, results, CrossEncoder, rerankers, constructed>>

----------------------------------------------------------------------------
(* Program constants                                                       *)

EMBEDDING_DIM == 1024
RRF_K == 60
MIN_POOL_SIZE == 100
MAX_POOL_SIZE == 200
TARGET_MAX_CHARS == 2000


----------------------------------------------------------------------------
(* Python floats: IEEE 754 binary64, round to nearest, ties to even.  A    *)
(* value between 2^-11 and 2^8 is held exactly, as a multiple of 2^-64, in *)
(* four limbs of 20 bits, the most significant first.                      *)

Limb == 2^20

FloatZero == <<0, 0, 0, 0>>

\* float(k) of a small whole number k
FloatOfInt(k) == <<16 * k, 0, 0, 0>>

\* the number of bits of a limb
BitLength(a) == CHOOSE k \in 0..20 : a < 2^k /\ (k = 0 \/ a >= 2^(k - 1))

\* the number of bits of a value
FloatBits(x) ==
    IF x[1] > 0 THEN 60 + BitLength(x[1])
    ELSE IF x[2] > 0 THEN 40 + BitLength(x[2])
    ELSE IF x[3] > 0 THEN 20 + BitLength(x[3])
    ELSE BitLength(x[4])

\* the carries of limbs that have grown past 20 bits
Normalize(x) ==
    LET c3 == x[3] + (x[4] \div Limb)
        c2 == x[2] + (c3 \div Limb)
        c1 == x[1] + (c2 \div Limb)
    IN <<c1, c2 % Limb, c3 % Limb, x[4] % Limb>>

\* the binary64 nearest to an exact value: 53 bits are kept; inexact says
\* that the exact value lies above x by less than 2^-64
RoundToDouble(x, inexact) ==
    LET drop == FloatBits(x) - 53
        unit == 2^drop
        low  == x[4] % unit
        half == unit \div 2
        odd  == (x[4] \div unit) % 2 = 1
        up   == low > half \/ (low = half /\ (inexact \/ odd))
    IN IF drop < 1 THEN x
       ELSE Normalize(<<x[1], x[2], x[3],
                        x[4] - low + (IF up THEN unit ELSE 0)>>)

\* x + y
FloatAdd(x, y) ==
    RoundToDouble(Normalize(<<x[1] + y[1], x[2] + y[2], x[3] + y[3], x[4] + y[4]>>),
                  FALSE)

\* x * m for a float m that is a small whole number
FloatMul(x, m) ==
    RoundToDouble(Normalize(<<x[1] * m, x[2] * m, x[3] * m, x[4] * m>>), FALSE)

\* x / n for an int n: the long division, limb by limb, then the rounding
FloatDiv(x, n) ==
    LET c1 == x[1]
        c2 == (c1 % n) * Limb + x[2]
        c3 == (c2 % n) * Limb + x[3]
        c4 == (c3 % n) * Limb + x[4]
    IN RoundToDouble(<<c1 \div n, c2 \div n, c3 \div n, c4 \div n>>, c4 % n # 0)

FloatLess(x, y) ==
    \E i \in 1..4 : x[i] < y[i] /\ \A j \in 1..(i - 1) : x[j] = y[j]

FloatLeq(x, y) == ~FloatLess(y, x)

\* SEMANTIC_WEIGHT = 1.0; KEYWORD_WEIGHT = 1.2, the binary64 nearest to 6/5;
\* SECTION_BOOST = 2.0, a whole number
SEMANTIC_WEIGHT == FloatOfInt(1)
KEYWORD_WEIGHT == FloatDiv(FloatOfInt(6), 5)
SECTION_BOOST == 2

----------------------------------------------------------------------------
(* Bounds of the model                                                     *)

MaxBatch == 2     \* longest chunk list handed to add
MaxRowid == 2     \* add is not explored past this rowid
MaxTopK == 2      \* largest top_k of the small-store searches
MaxCrowd == 111   \* most documents of the other collection in a crowded store
MaxLines == 3     \* most lines of a model response
MaxVariations == 2 \* largest num_variations of a QueryExpander
MaxPieces == 2    \* most pieces of a markdown file
MaxCandidates == 3 \* most candidates handed to the reranker
MaxScore == 1     \* largest cross-encoder score
MaxRerankers == 1 \* most Reranker instances of the process
MaxConstructed == 2 \* most CrossEncoder constructions followed
MaxFiles == 2     \* most markdown files of an output directory
MaxIndexRowid == 3 \* index_documents is not explored past this rowid
MaxOverlap == 1 \* runs that start while one add of a second process is open
MaxRetries == 4   \* largest max_retries of a Fetcher

----------------------------------------------------------------------------
(* Text                                                                    *)

None == <<"None">>

UpperChars == {"F", "H", "T"}
LowerChars == {"a", "b", "e", "f", "h", "o", "r", "t", "u", "x", "z"}
DigitChars == {"0", "1"}

ToLower(c) == CASE c = "F" -> "f" [] c = "H" -> "h" [] c = "T" -> "t" [] OTHER -> c

IsSpace(c) == c \in {" ", "\t", "\n", "\r"}

\* \w of Python's re: letters, digits and the underscore
IsWordChar(c) == c \in UpperChars \cup LowerChars \cup DigitChars \cup {"_"}

\* what the unicode61 tokenizer of FTS5 keeps inside a token
IsTokenChar(c) == c \in UpperChars \cup LowerChars \cup DigitChars

Lower(s) == [i \in 1..Len(s) |-> ToLower(s[i])]

RECURSIVE LStrip(_)
LStrip(s) == IF s # <<>> /\ IsSpace(Head(s)) THEN LStrip(Tail(s)) ELSE s

RECURSIVE RStrip(_)
RStrip(s) ==
    IF s # <<>> /\ IsSpace(s[Len(s)]) THEN RStrip(SubSeq(s, 1, Len(s) - 1)) ELSE s

\* str.strip()
Strip(s) == RStrip(LStrip(s))

\* str.split(): the maximal runs of non-whitespace characters
RECURSIVE SplitWs(_, _, _)
SplitWs(s, cur, acc) ==
    IF s = <<>> THEN (IF cur = <<>> THEN acc ELSE Append(acc, cur))
    ELSE IF IsSpace(Head(s))
         THEN SplitWs(Tail(s), <<>>, IF cur = <<>> THEN acc ELSE Append(acc, cur))
         ELSE SplitWs(Tail(s), Append(cur, Head(s)), acc)

Split(s) == SplitWs(s, <<>>, <<>>)

\* sep.join(parts)
RECURSIVE Join(_, _)
Join(sep, parts) ==
    IF parts = <<>> THEN <<>>
    ELSE IF Len(parts) = 1 THEN parts[1]
    ELSE parts[1] \o sep \o Join(sep, Tail(parts))

\* re.sub(r'[^\w\-]', '', s): the word characters and hyphens of s, in order
RECURSIVE KeepWordChars(_)
KeepWordChars(s) ==
    IF s = <<>> THEN <<>>
    ELSE (IF IsWordChar(Head(s)) \/ Head(s) = "-" THEN <<Head(s)>> ELSE <<>>)
         \o KeepWordChars(Tail(s))

\* sub in s: Python's `sub in s` on strings
IsSubstring(sub, s) ==
    \E i \in 0..(Len(s) - Len(sub)) : SubSeq(s, i + 1, i + Len(sub)) = sub

IsPrefix(p, s) == Len(p) <= Len(s) /\ SubSeq(s, 1, Len(p)) = p

\* str(v) / f"{v}"
Str(v) == IF v = None THEN <<"N", "o", "n", "e">> ELSE v

\* `v or ""`
OrEmpty(v) == IF v = None THEN <<>> ELSE v

SeqToSet(s) == {s[i] : i \in 1..Len(s)}

----------------------------------------------------------------------------
(* The store: three tables that share rowids                               *)

Collections == {"A", "B"}

EmptyFn == [x \in {} |-> x]

\* documents and documents_vec are keyed by rowid; documents_fts is the set of
\* entries the FTS5 index holds, each the indexed text of one rowid.
EmptyDb == [documents |-> EmptyFn, documents_fts |-> {}, documents_vec |-> EmptyFn]

Put(f, k, v) == [x \in (DOMAIN f) \cup {k} |-> IF x = k THEN v ELSE f[x]]

Remove(f, S) == [x \in (DOMAIN f) \ S |-> f[x]]

Max(S) == CHOOSE m \in S : \A x \in S : x <= m

\* hashlib.sha256(f"{source_url}:{content}").hexdigest(); the digest is taken
\* to be collision free, so the id is written as the hashed text itself.
GenerateId(content, source_url) == Str(source_url) \o <<":">> \o content

\* struct.pack(f"{len(embedding)}f", *embedding): 4 bytes per component
SerializeEmbedding(embedding) == [nbytes |-> 4 * embedding.dim, x |-> embedding.x]

\* the metadata dict written to the row: list values become " > "-joined text
PrepareMetadata(metadata) ==
    [key \in DOMAIN metadata |->
        IF key = "hierarchy" THEN Join(<<" ", ">", " ">>, metadata[key])
        ELSE metadata[key]]

\* vec0 takes a vector only if the blob has the declared length
VecAccepts(bytes) == bytes.nbytes = 4 * EMBEDDING_DIM

\* a lookup that never finds the stored row
NoExistingRow(t, chunk_id) == {}

\* SELECT rowid FROM documents WHERE id = ?
RowidsOfId(t, chunk_id) == {r \in DOMAIN t.documents : t.documents[r].id = chunk_id}

\* the rowid SQLite gives a row inserted without one: largest rowid + 1
NextRowid(t) == IF DOMAIN t.documents = {} THEN 1 ELSE Max(DOMAIN t.documents) + 1

\* the FTS5 entry of the values (rowid, content, section) of a row: what the
\* triggers insert for new.* and what their 'delete' command removes for old.*
FtsEntry(rowid, row) ==
    [rowid |-> rowid, content |-> row.content, section |-> row.section]

\* trigger documents_ai
AfterInsert(fts, rowid, new) == fts \cup {FtsEntry(rowid, new)}

\* trigger documents_ad
AfterDelete(fts, rowid, old) == fts \ {FtsEntry(rowid, old)}

\* trigger documents_au
AfterUpdate(fts, rowid, old, new) ==
    (fts \ {FtsEntry(rowid, old)}) \cup {FtsEntry(rowid, new)}

\* INSERT INTO documents with trigger documents_ai, then
\* INSERT INTO documents_vec (rowid, embedding).  documents.id is the PRIMARY
\* KEY: the first INSERT raises IntegrityError when a row holds the id.
InsertNew(t, coll, chunk_id, chunk, bytes) ==
    LET md    == PrepareMetadata(chunk.metadata)
        rowid == NextRowid(t)
        row   == [id |-> chunk_id, collection |-> coll, content |-> chunk.content,
                  source_url |-> md.source_url, section |-> md.section,
                  metadata |-> md, embedding |-> bytes]
        t1    == [t EXCEPT !.documents = Put(t.documents, rowid, row),
                           !.documents_fts = AfterInsert(t.documents_fts, rowid, row)]
    IN IF RowidsOfId(t, chunk_id) # {}
       THEN [t |-> t, ok |-> FALSE, error |-> "IntegrityError"]
       ELSE IF ~VecAccepts(bytes) \/ rowid \in DOMAIN t.documents_vec
       THEN [t |-> t1, ok |-> FALSE, error |-> "OperationalError"]
       ELSE [t |-> [t1 EXCEPT !.documents_vec = Put(t1.documents_vec, rowid, bytes)],
             ok |-> TRUE, error |-> "none"]

\* an update path that writes a second row for the chunk
UpdateAsInsert(t, chunk_id, rowid, chunk, bytes) ==
    LET md  == PrepareMetadata(chunk.metadata)
        new == NextRowid(t)
        row == [id |-> chunk_id, collection |-> t.documents[rowid].collection,
                content |-> chunk.content, source_url |-> md.source_url,
                section |-> md.section, metadata |-> md, embedding |-> bytes]
    IN [t |-> [documents     |-> Put(t.documents, new, row),
               documents_fts |-> AfterInsert(t.documents_fts, new, row),
               documents_vec |-> Put(t.documents_vec, new, bytes)],
        ok |-> TRUE, error |-> "none"]

\* UPDATE documents ... WHERE id = ? with trigger documents_au, then
\* UPDATE documents_vec SET embedding = ? WHERE rowid = ?, where rowid is the
\* one the SELECT found.  The first UPDATE changes the row that holds the id
\* now, the second the vector under the rowid found then; each changes
\* nothing when there is no such row.
UpdateExisting(t, chunk_id, rowid, chunk, bytes) ==
    LET md   == PrepareMetadata(chunk.metadata)
        held == RowidsOfId(t, chunk_id)
        new(r) == [t.documents[r] EXCEPT
                      !.content = chunk.content,
                      !.source_url = md.source_url,
                      !.section = md.section,
                      !.metadata = md,
                      !.embedding = bytes]
        t1   == IF held = {} THEN t
                ELSE LET r == CHOOSE r \in held : TRUE
                     IN [t EXCEPT !.documents = Put(t.documents, r, new(r)),
                                  !.documents_fts = AfterUpdate(t.documents_fts, r,
                                                                t.documents[r], new(r))]
    IN IF rowid \in DOMAIN t1.documents_vec /\ ~VecAccepts(bytes)
       THEN [t |-> t1, ok |-> FALSE, error |-> "OperationalError"]
       ELSE [t |-> [t1 EXCEPT !.documents_vec =
                        IF rowid \in DOMAIN t1.documents_vec
                        THEN Put(t1.documents_vec, rowid, bytes)
                        ELSE t1.documents_vec],
             ok |-> TRUE, error |-> "none"]

\* the loop of add over zip(chunks, embeddings), on the transaction t that
\* the first INSERT or UPDATE opens.  The SELECT of the first chunk runs
\* before it, in autocommit mode, and found the rowids first; the later
\* SELECTs read the transaction.  Yields the transaction's tables, whether a
\* statement raised, at which position of the batch, and the exception.
RECURSIVE AddLoop(_, _, _, _, _, _, _)
AddLoop(t, coll, chunks, embeddings, i, seen_ids, first) ==
    IF i > Len(chunks) \/ i > Len(embeddings)
    THEN [t |-> t, ok |-> TRUE, at |-> 0, error |-> "none"]
    ELSE LET chunk    == chunks[i]
             chunk_id == GenerateId(chunk.content, chunk.metadata.source_url)
             bytes    == SerializeEmbedding(embeddings[i])
             existing == IF i = 1 THEN first ELSE RowidsOfId(t, chunk_id)
         IN IF chunk_id \in seen_ids
            THEN AddLoop(t, coll, chunks, embeddings, i + 1, seen_ids, first)
            ELSE LET step == IF existing # {}
                             THEN UpdateExisting(t, chunk_id,
                                                 CHOOSE r \in existing : TRUE,
                                                 chunk, bytes)
                             ELSE InsertNew(t, coll, chunk_id, chunk, bytes)
                 IN IF step.ok
                    THEN AddLoop(step.t, coll, chunks, embeddings, i + 1,
                                 seen_ids \cup {chunk_id}, first)
                    ELSE [t |-> step.t, ok |-> FALSE, at |-> i, error |-> step.error]

\* a close that keeps what the statements before the failing one wrote
RollbackKeepsWrites(committed, t) == t

\* conn.close() without conn.commit(): the open transaction is rolled back
Rollback(committed, t) == committed

\* add up to its first write: the SELECT of the first chunk, on the database
\* as committed at that moment
AddSelect(d, chunks) ==
    RowidsOfId(d, GenerateId(chunks[1].content, chunks[1].metadata.source_url))

\* add from its first write to the end, on the database d as committed when
\* the transaction opens; first is what the SELECT of the first chunk found
AddWrite(d, coll, chunks, embeddings, first) ==
    LET run == AddLoop(d, coll, chunks, embeddings, 1, {}, first)
    IN IF run.ok
       THEN [db |-> run.t, outcome |-> "ok", at |-> 0]
       ELSE [db |-> Rollback(d, run.t), outcome |-> run.error, at |-> run.at]

\* SQLiteStore.add on the committed database d while no other connection
\* commits: the database afterwards and the outcome of the call.
AddCall(d, coll, chunks, embeddings) ==
    IF chunks = <<>>
    THEN [db |-> d, outcome |-> "ok", at |-> 0]
    ELSE IF Len(chunks) # Len(embeddings)
    THEN [db |-> d, outcome |-> "ValueError", at |-> 0]
    ELSE AddWrite(d, coll, chunks, embeddings, AddSelect(d, chunks))

\* SELECT rowid FROM documents WHERE collection = ?
RowidsOfCollection(d, coll) ==
    {r \in DOMAIN d.documents : d.documents[r].collection = coll}

\* SELECT rowid FROM documents WHERE collection = ? AND source_url = ?
RowidsOfSource(d, coll, source_url) ==
    {r \in DOMAIN d.documents :
        d.documents[r].collection = coll /\ d.documents[r].source_url = source_url}

\* trigger documents_ad for each deleted row
RECURSIVE AfterDeletes(_, _, _)
AfterDeletes(fts, documents, gone) ==
    IF gone = {} THEN fts
    ELSE LET r == CHOOSE x \in gone : TRUE
         IN AfterDeletes(AfterDelete(fts, r, documents[r]), documents, gone \ {r})

\* a delete that leaves the vector index alone
DeleteRowsKeepVectors(d, rowids, gone) ==
    IF rowids = {} THEN d
    ELSE [documents     |-> Remove(d.documents, gone),
          documents_fts |-> AfterDeletes(d.documents_fts, d.documents, gone),
          documents_vec |-> d.documents_vec]

\* a delete that leaves the newest of the rows in its place
DeleteRowsButNewest(d, rowids, gone) ==
    IF rowids = {} \/ gone = {} THEN d
    ELSE [documents     |-> Remove(d.documents, gone \ {Max(gone)}),
          documents_fts |-> AfterDeletes(d.documents_fts, d.documents,
                                         gone \ {Max(gone)}),
          documents_vec |-> Remove(d.documents_vec, rowids \ {Max(gone)})]

\* if rowids: DELETE FROM documents_vec WHERE rowid IN (rowids), then DELETE
\* FROM documents for the rows in gone, with trigger documents_ad, then commit
DeleteRows(d, rowids, gone) ==
    IF rowids = {} THEN d
    ELSE [documents     |-> Remove(d.documents, gone),
          documents_fts |-> AfterDeletes(d.documents_fts, d.documents, gone),
          documents_vec |-> Remove(d.documents_vec, rowids)]

WriteOps == {"add", "clear", "delete_by_source"}
DeleteOps == {"clear", "delete_by_source"}

\* a WHERE clause without the collection filter
SelectedEveryRowid(d, op, coll, source_url) == DOMAIN d.documents

\* the rowids of the WHERE clause of clear or of delete_by_source: what the
\* SELECT of the call returns and what its DELETE FROM documents removes
SelectedRowids(d, op, coll, source_url) ==
    IF op = "clear" THEN RowidsOfCollection(d, coll)
    ELSE RowidsOfSource(d, coll, source_url)

\* SQLiteStore.count
Count(d, coll) == Cardinality(RowidsOfCollection(d, coll))

\* SQLiteStore.collection_count
CollectionCount(d, coll) == Count(d, coll)

\* SQLiteStore.list_collections
ListCollections(d) == {d.documents[r].collection : r \in DOMAIN d.documents}

\* SQLiteStore.get_by_source
GetBySource(d, coll, source_url) ==
    {[content |-> d.documents[r].content, metadata |-> d.documents[r].metadata] :
        r \in RowidsOfSource(d, coll, source_url)}

----------------------------------------------------------------------------
(* Search: semantic ranking, FTS query, lexical ranking, weighted RRF      *)

STOP_WORDS == {
    <<"a">>, <<"a", "n">>, <<"a", "n", "d">>, <<"a", "r", "e">>,
    <<"a", "s">>, <<"a", "t">>, <<"b", "e">>, <<"b", "y">>,
    <<"f", "o", "r">>, <<"f", "r", "o", "m">>, <<"h", "a", "s">>,
    <<"h", "e">>, <<"i", "n">>, <<"i", "s">>, <<"i", "t">>,
    <<"i", "t", "s">>, <<"o", "f">>, <<"o", "n">>, <<"o", "r">>,
    <<"t", "h", "a", "t">>, <<"t", "h", "e">>, <<"t", "o">>,
    <<"w", "a", "s">>, <<"w", "e", "r", "e">>, <<"w", "i", "l", "l">>,
    <<"w", "i", "t", "h">>, <<"h", "o", "w">>, <<"w", "h", "a", "t">>,
    <<"w", "h", "e", "n">>, <<"w", "h", "e", "r", "e">>,
    <<"w", "h", "i", "c", "h">>, <<"w", "h", "o">>, <<"w", "h", "y">>,
    <<"c", "a", "n">>, <<"d", "o">>, <<"d", "o", "e", "s">>,
    <<"s", "h", "o", "u", "l", "d">>, <<"w", "o", "u", "l", "d">>}

Min2(a, b) == IF a <= b THEN a ELSE b
Max2(a, b) == IF a >= b THEN a ELSE b
Abs(a) == IF a >= 0 THEN a ELSE -a

\* pool_size = max(MIN_POOL_SIZE, min(top_k * 10, MAX_POOL_SIZE))
PoolSize(top_k) == Max2(MIN_POOL_SIZE, Min2(top_k * 10, MAX_POOL_SIZE))

\* L2 distance of the stored vector and the query vector
Distance(bytes, query_bytes) == Abs(bytes.x - query_bytes.x)

\* v.embedding MATCH ? AND k = ? ORDER BY v.distance: the k vectors of the
\* whole documents_vec table nearest to the query, nearest first (equal
\* distances in rowid order).
KnnBefore(d, query_bytes, r1, r2) ==
    LET d1 == Distance(d.documents_vec[r1], query_bytes)
        d2 == Distance(d.documents_vec[r2], query_bytes)
    IN d1 < d2 \/ (d1 = d2 /\ r1 < r2)

\* every rowid of documents_vec with its place in that order
KnnRanked(d, query_bytes) ==
    LET all == DOMAIN d.documents_vec
    IN {<<Cardinality({s \in all : KnnBefore(d, query_bytes, s, r)}) + 1, r>> :
           r \in all}

KnnTake(ranked, k) ==
    [i \in 1..Min2(k, Cardinality(ranked)) |-> (CHOOSE p \in ranked : p[1] = i)[2]]

KnnRowids(d, query_bytes, k) == KnnTake(KnnRanked(d, query_bytes), k)

\* one row of a SELECT joined with documents
RowOf(d, r) ==
    [rowid |-> r, id |-> d.documents[r].id, content |-> d.documents[r].content,
     source_url |-> d.documents[r].source_url, section |-> d.documents[r].section,
     metadata |-> d.documents[r].metadata]

\* the semantic SELECT: the KNN rows, JOIN documents d ON d.rowid = v.rowid,
\* filtered by d.collection = ?, in distance order
SemanticSelect(d, coll, query_bytes, pool_size) ==
    LET knn == KnnRowids(d, query_bytes, pool_size)
        InColl(r) == r \in DOMAIN d.documents /\ d.documents[r].collection = coll
        kept == SelectSeq(knn, InColl)
    IN [i \in 1..Len(kept) |-> RowOf(d, kept[i])]

\* re.findall(r'"([^"]+)"', s) and re.sub(r'"[^"]+"', '', s) in one scan:
\* phrases is the list of matches, rest the text with the matches removed.
QuoteAt(s, from) ==
    LET later == {j \in from..Len(s) : s[j] = "\""}
    IN IF later = {} THEN 0 ELSE CHOOSE j \in later : \A x \in later : j <= x

RECURSIVE ScanQuotes(_, _, _, _)
ScanQuotes(s, i, phrases, rest) ==
    IF i > Len(s) THEN [phrases |-> phrases, rest |-> rest]
    ELSE IF s[i] # "\"" THEN ScanQuotes(s, i + 1, phrases, Append(rest, s[i]))
    ELSE LET j == QuoteAt(s, i + 1)
         IN IF j > i + 1
            THEN ScanQuotes(s, j + 1, Append(phrases, SubSeq(s, i + 1, j - 1)), rest)
            ELSE ScanQuotes(s, i + 1, phrases, Append(rest, s[i]))

\* the terms of the unquoted remainder: lowercased, cleaned of punctuation,
\* longer than one character and no stop word
RECURSIVE CleanTerms(_)
CleanTerms(ws) ==
    IF ws = <<>> THEN <<>>
    ELSE LET word == KeepWordChars(Lower(Head(ws)))
         IN (IF Len(word) > 1 /\ word \notin STOP_WORDS THEN <<word>> ELSE <<>>)
            \o CleanTerms(Tail(ws))

\* the words of a quoted phrase that are no stop words
RECURSIVE DropStopWords(_)
DropStopWords(ws) ==
    IF ws = <<>> THEN <<>>
    ELSE (IF Lower(Head(ws)) \notin STOP_WORDS THEN <<Head(ws)>> ELSE <<>>)
         \o DropStopWords(Tail(ws))

RECURSIVE PhraseParts(_)
PhraseParts(phrases) ==
    IF phrases = <<>> THEN <<>>
    ELSE LET clean_phrase == Join(<<" ">>, DropStopWords(Split(Head(phrases))))
         IN (IF clean_phrase # <<>>
             THEN <<[text |-> clean_phrase, prefix |-> FALSE]>> ELSE <<>>)
            \o PhraseParts(Tail(phrases))

TermParts(terms) ==
    [i \in 1..Len(terms) |-> [text |-> terms[i], prefix |-> Len(terms[i]) >= 3]]

\* SQLiteStore._parse_fts_query: the parts that the code joins with " OR ";
\* a part is the quoted text and whether a * follows it.  The empty list is
\* the empty FTS query "".
ParseFtsQuery(query_text) ==
    LET scan == ScanQuotes(query_text, 1, <<>>, <<>>)
    IN IF query_text = <<>> THEN <<>>
       ELSE PhraseParts(scan.phrases) \o TermParts(CleanTerms(Split(scan.rest)))

\* the tokens FTS5 (unicode61) makes of a text: the maximal runs of letters
\* and digits, lowercased
RECURSIVE TokenizeFrom(_, _, _)
TokenizeFrom(s, cur, acc) ==
    IF s = <<>> THEN (IF cur = <<>> THEN acc ELSE Append(acc, cur))
    ELSE IF IsTokenChar(Head(s))
         THEN TokenizeFrom(Tail(s), Append(cur, ToLower(Head(s))), acc)
         ELSE TokenizeFrom(Tail(s), <<>>, IF cur = <<>> THEN acc ELSE Append(acc, cur))

Tokenize(text) == IF text = None THEN <<>> ELSE TokenizeFrom(text, <<>>, <<>>)

\* a quoted FTS5 string matches a column when its tokens occur there side by
\* side, the last one as a prefix when a * follows the string
PhraseMatches(column, part) ==
    LET want == Tokenize(part.text)
        have == Tokenize(column)
        n == Len(want)
    IN /\ n > 0
       /\ \E at \in 0..(Len(have) - n) :
             \A k \in 1..n :
                IF k = n /\ part.prefix
                THEN IsPrefix(want[k], have[at + k])
                ELSE have[at + k] = want[k]

\* documents_fts MATCH ?: some part of the OR matches the content or the
\* section column of the entry
FtsMatches(entry, fts_query) ==
    \E i \in 1..Len(fts_query) :
        PhraseMatches(entry.content, fts_query[i])
        \/ PhraseMatches(entry.section, fts_query[i])

\* the rowids of the keyword SELECT, before ORDER BY bm25_score LIMIT ?
KeywordMatches(d, coll, fts_query) ==
    {e.rowid : e \in {x \in d.documents_fts :
        /\ x.rowid \in DOMAIN d.documents
        /\ d.documents[x.rowid].collection = coll
        /\ FtsMatches(x, fts_query)}}

\* the orders BM25 may give a set of matching rows
Orders(S) ==
    {o \in [1..Cardinality(S) -> S] : \A i, j \in 1..Cardinality(S) : i # j => o[i] # o[j]}

\* the keyword SELECT in the order bm25_order of its matches, LIMIT pool_size
KeywordSelect(d, bm25_order, pool_size) ==
    [i \in 1..Min2(pool_size, Len(bm25_order)) |-> RowOf(d, bm25_order[i])]

\* the query terms used for the section boost
QueryTerms(query_text) ==
    {Lower(w) : w \in {x \in SeqToSet(Split(query_text)) :
                          Len(x) > 1 /\ Lower(x) \notin STOP_WORDS}}

\* ids of keyword rows whose section title contains a query term
SectionMatches(kw, query_text) ==
    {kw[i].id : i \in {k \in 1..Len(kw) :
        \E term \in QueryTerms(query_text) :
            IsSubstring(term, Lower(OrEmpty(kw[k].section)))}}


\* an Optional[int]: <<>> is None, <<n>> is n
NoRank == <<>>
Rank(n) == <<n>>

\* the branch `if semantic_only or not query_text.strip()`: the first top_k
\* semantic rows, ranked from 1
SemanticOnlyResults(sem, top_k) ==
    [rank \in 1..Min2(top_k, Len(sem)) |->
        [content       |-> sem[rank].content,
         source_url    |-> OrEmpty(sem[rank].source_url),
         section       |-> OrEmpty(sem[rank].section),
         score         |-> FloatDiv(SEMANTIC_WEIGHT, RRF_K + rank),
         metadata      |-> sem[rank].metadata,
         semantic_rank |-> Rank(rank),
         keyword_rank  |-> NoRank]]

\* one entry of doc_scores, a dict kept as the list of its items in
\* insertion order
DocData(row, semantic_rank, keyword_rank, section_match) ==
    [id            |-> row.id,
     content       |-> row.content,
     source_url    |-> OrEmpty(row.source_url),
     section       |-> OrEmpty(row.section),
     metadata      |-> row.metadata,
     semantic_rank |-> semantic_rank,
     keyword_rank  |-> keyword_rank,
     section_match |-> section_match]

\* a dict keeps a key at the place of its first assignment: the places in
\* rows of the first row of every id, and the last place of an id
FirstPlaces(rows) ==
    SelectSeq([i \in 1..Len(rows) |-> i],
              LAMBDA i : \A j \in 1..(i - 1) : rows[j].id # rows[i].id)

LastPlace(rows, doc_id) == Max({j \in 1..Len(rows) : rows[j].id = doc_id})

\* for rank, row in enumerate(semantic_results, 1): doc_scores[doc_id] = {...}
AddSemantic(sem) ==
    LET firsts == FirstPlaces(sem)
    IN [k \in 1..Len(firsts) |->
          LET rank == LastPlace(sem, sem[firsts[k]].id)
          IN DocData(sem[rank], Rank(rank), NoRank, FALSE)]

\* for rank, row in enumerate(keyword_results, 1): an id already in
\* doc_scores gets keyword_rank and section_match, a new one gets an entry
AddKeyword(items, kw, section_matches) ==
    LET Ranked(doc_id) == \E j \in 1..Len(kw) : kw[j].id = doc_id
        Known(doc_id) == \E i \in 1..Len(items) : items[i].id = doc_id
        updated == [i \in 1..Len(items) |->
                      IF Ranked(items[i].id)
                      THEN [items[i] EXCEPT
                              !.keyword_rank = Rank(LastPlace(kw, items[i].id)),
                              !.section_match = items[i].id \in section_matches]
                      ELSE items[i]]
        fresh == SelectSeq(FirstPlaces(kw), LAMBDA j : ~Known(kw[j].id))
    IN updated \o
       [k \in 1..Len(fresh) |->
          DocData(kw[fresh[k]], NoRank, Rank(LastPlace(kw, kw[fresh[k]].id)),
                  kw[fresh[k]].id \in section_matches)]

\* a score that counts ranks from 0
RrfScoreFromZero(data) ==
    LET semantic == IF data.semantic_rank # NoRank
                    THEN FloatAdd(FloatZero,
                             FloatDiv(SEMANTIC_WEIGHT, RRF_K + data.semantic_rank[1] - 1))
                    ELSE FloatZero
        keyword  == FloatDiv(KEYWORD_WEIGHT, RRF_K + data.keyword_rank[1] - 1)
        boosted  == IF data.section_match THEN FloatMul(keyword, SECTION_BOOST)
                    ELSE keyword
    IN IF data.keyword_rank # NoRank THEN FloatAdd(semantic, boosted) ELSE semantic

\* the weighted RRF score of one entry of doc_scores: rrf_score = 0.0, then
\* += the semantic contribution, then += the keyword contribution, each sum
\* and each quotient rounded to a float
RrfScore(data) ==
    LET semantic == IF data.semantic_rank # NoRank
                    THEN FloatAdd(FloatZero,
                             FloatDiv(SEMANTIC_WEIGHT, RRF_K + data.semantic_rank[1]))
                    ELSE FloatZero
        keyword  == FloatDiv(KEYWORD_WEIGHT, RRF_K + data.keyword_rank[1])
        boosted  == IF data.section_match THEN FloatMul(keyword, SECTION_BOOST)
                    ELSE keyword
    IN IF data.keyword_rank # NoRank THEN FloatAdd(semantic, boosted) ELSE semantic

ScoredResult(data) ==
    [content       |-> data.content,
     source_url    |-> data.source_url,
     section       |-> data.section,
     score         |-> RrfScore(data),
     metadata      |-> data.metadata,
     semantic_rank |-> data.semantic_rank,
     keyword_rank  |-> data.keyword_rank]

\* list.sort(key=score, reverse=True) over float scores: stable, highest
\* first.  The places of the items in the sorted list, as pairs
\* <<place, item>>.
SortPlaces(rs) ==
    {<<Cardinality({j \in 1..Len(rs) : FloatLess(rs[i].score, rs[j].score)})
       + Cardinality({j \in 1..(i - 1) : /\ ~FloatLess(rs[j].score, rs[i].score)
                                         /\ ~FloatLess(rs[i].score, rs[j].score)})
       + 1, i>> : i \in 1..Len(rs)}

SortTake(rs, places) ==
    [p \in 1..Len(rs) |-> rs[(CHOOSE q \in places : q[1] = p)[2]]]

\* a sort that puts the lowest score first
SortByScoreAsc(rs) ==
    [p \in 1..Len(rs) |->
        rs[(CHOOSE q \in SortPlaces(rs) : q[1] = Len(rs) + 1 - p)[2]]]

\* results.sort(key=lambda x: x.score, reverse=True) over float scores
SortByScoreDesc(rs) == SortTake(rs, SortPlaces(rs))

\* a return of the whole sorted list
ReturnAll(rs, top_k) == rs

\* results[:top_k]
Truncate(rs, top_k) == SubSeq(rs, 1, Min2(top_k, Len(rs)))

\* the hybrid branch: fuse the two rankings, sort, cut
HybridResults(sem, kw, query_text, top_k) ==
    LET section_matches == SectionMatches(kw, query_text)
        doc_scores == AddKeyword(AddSemantic(sem), kw, section_matches)
        scored == [i \in 1..Len(doc_scores) |-> ScoredResult(doc_scores[i])]
    IN Truncate(SortByScoreDesc(scored), top_k)

\* does the call return from the semantic-only branch
TakesSemanticBranch(query_text, semantic_only) ==
    semantic_only \/ Strip(query_text) = <<>>

\* SQLiteStore.search run against one state d of the database; bm25_order is
\* the order BM25 gives the keyword matches.
StoreSearch(d, coll, query_embedding, query_text, top_k, semantic_only, bm25_order) ==
    LET pool_size == PoolSize(top_k)
        sem == SemanticSelect(d, coll, SerializeEmbedding(query_embedding), pool_size)
        kw  == KeywordSelect(d, bm25_order, pool_size)
    IN IF TakesSemanticBranch(query_text, semantic_only)
       THEN SemanticOnlyResults(sem, top_k)
       ELSE HybridResults(sem, kw, query_text, top_k)

\* the orders the keyword SELECT of a call may come back in ([] when the FTS
\* query is empty and the SELECT is skipped)
Bm25Orders(d, coll, query_text) ==
    Orders(KeywordMatches(d, coll, ParseFtsQuery(query_text)))

----------------------------------------------------------------------------
(* Inputs of the store calls                                               *)

Url1 == <<"u">>
Url2 == <<"u", ":", "z", "z">>
Foo == <<"f", "o", "o">>
ZzFoo == <<"z", "z", ":", "f", "o", "o">>
Bar == <<"b", "a", "r">>
SecFoo == <<"F", "o", "o">>
SecBar == <<"T", "h", "e", " ", "b", "a", "r">>

MkChunk(content, source_url, section, hierarchy) ==
    [content |-> content,
     metadata |-> [source_url |-> source_url, section |-> section,
                   hierarchy |-> hierarchy]]

Vec(x) == [dim |-> EMBEDDING_DIM, x |-> x]
ShortVec(x) == [dim |-> EMBEDDING_DIM - 1, x |-> x]

\* The (chunk, embedding) pairs a batch is made of.  Pairs 2 and 3 differ in
\* source_url and in content and still hash the same text "u:zz:foo"; pairs
\* 4 and 5 are one chunk of a file without source comment, and pair 5
\* carries a vector of the wrong length.
Pairs ==
    << [chunk |-> MkChunk(Foo, Url1, None, <<>>), embedding |-> Vec(0)],
       [chunk |-> MkChunk(ZzFoo, Url1, SecBar, <<SecBar>>), embedding |-> Vec(1)],
       [chunk |-> MkChunk(Foo, Url2, SecFoo, <<SecBar, SecFoo>>), embedding |-> Vec(0)],
       [chunk |-> MkChunk(Bar, None, SecBar, <<SecBar>>), embedding |-> Vec(2)],
       [chunk |-> MkChunk(Bar, None, <<>>, <<>>), embedding |-> ShortVec(2)] >>

\* the batches: every list of at most MaxBatch pairs
Batches == UNION {[1..n -> 1..Len(Pairs)] : n \in 0..MaxBatch}

ChunksOf(batch) == [i \in 1..Len(batch) |-> Pairs[batch[i]].chunk]
EmbeddingsOf(batch) == [i \in 1..Len(batch) |-> Pairs[batch[i]].embedding]

\* the two lists of a call: those of the batch, or one of them an item short
\* (the lists of unequal length are made of the first pair only)
Trims == {"none", "chunks", "embeddings"}
TrimsOf(batch) ==
    IF batch # <<>> /\ \A i \in 1..Len(batch) : batch[i] = 1 THEN Trims ELSE {"none"}
ButLast(xs) == IF xs = <<>> THEN xs ELSE SubSeq(xs, 1, Len(xs) - 1)
CallChunks(batch, trim) ==
    IF trim = "chunks" THEN ButLast(ChunksOf(batch)) ELSE ChunksOf(batch)
CallEmbeddings(batch, trim) ==
    IF trim = "embeddings" THEN ButLast(EmbeddingsOf(batch)) ELSE EmbeddingsOf(batch)

SourceUrls == {Url1, Url2}

IdsOf(chunks) ==
    {GenerateId(chunks[i].content, chunks[i].metadata.source_url) : i \in 1..Len(chunks)}

StoredIds(d) == {d.documents[r].id : r \in DOMAIN d.documents}

----------------------------------------------------------------------------
(* The store calls, one after the other                                    *)

\* pc is "write" while the call stands between its SELECT and its first
\* write, with its arguments and the rowids the SELECT returned
NoCall == [op |-> "none", coll |-> "A", outcome |-> "ok", at |-> 0,
           changed |-> FALSE, repeat |-> FALSE, pc |-> "done",
           chunks |-> <<>>, embeddings |-> <<>>, source_url |-> None,
           rowids |-> {}]

NoSearch == [entry |-> "none", coll |-> "A", x |-> 0, query_text |-> <<>>,
             top_k |-> 1, semantic_only |-> FALSE, list_up |-> TRUE,
             outcome |-> "ok"]

SearchIdle ==
    /\ search_pc = "idle"
    /\ search_in = NoSearch
    /\ semantic_results = <<>>
    /\ keyword_results = <<>>
    /\ sem_seen = EmptyDb
    /\ kw_seen = EmptyDb
    /\ results = <<>>

\* reranker.py imported with sentence-transformers installed, no Reranker yet
RerankIdle ==
    /\ CrossEncoder = <<"CrossEncoder">>
    /\ rerankers = <<>>
    /\ constructed = 0

RerankVars == <<CrossEncoder, rerankers, constructed>>

Init ==
    /\ db = EmptyDb
    /\ last = NoCall
    /\ SearchIdle
    /\ RerankIdle

SearchVars == <<search_pc, search_in, semantic_results, keyword_results,
                sem_seen, kw_seen, results>>

\* store.add(chunks, embeddings) on a store bound to coll, up to its first
\* write: the two checks of the lists and the SELECT of the first chunk,
\* which runs in autocommit mode and holds no lock afterwards.  A call that
\* returns or raises at the checks is over.  A call that could write a
\* rowid past MaxRowid is not followed.
AddBegin(coll, batch, trim) ==
    /\ last.pc = "done"
    /\ \E chunks \in {CallChunks(batch, trim)} :
       \E embeddings \in {CallEmbeddings(batch, trim)} :
          /\ NextRowid(db) + Cardinality(IdsOf(chunks) \ StoredIds(db)) - 1 <= MaxRowid
          /\ last' = IF chunks = <<>> \/ Len(chunks) # Len(embeddings)
                     THEN [NoCall EXCEPT !.op = "add", !.coll = coll,
                                         !.outcome = AddCall(db, coll, chunks,
                                                             embeddings).outcome]
                     ELSE [NoCall EXCEPT !.op = "add", !.coll = coll,
                                         !.pc = "write", !.chunks = chunks,
                                         !.embeddings = embeddings,
                                         !.rowids = AddSelect(db, chunks)]
    /\ UNCHANGED <<db, SearchVars, RerankVars>>

\* the rest of the add: the first INSERT or UPDATE opens the transaction on
\* the database as committed now, the loop runs in it, then commit, or
\* rollback when a statement raised.  last.repeat says that the call went
\* through and met an id a second time: one already stored, or one seen
\* earlier in the batch.
AddFinish ==
    /\ last.op = "add"
    /\ last.pc = "write"
    /\ \E call \in {AddWrite(db, last.coll, last.chunks, last.embeddings,
                             last.rowids)} :
          /\ \A r \in DOMAIN call.db.documents : r <= MaxRowid
          /\ db' = call.db
          /\ last' = [NoCall EXCEPT
                         !.op = "add", !.coll = last.coll,
                         !.outcome = call.outcome, !.at = call.at,
                         !.changed = (call.db # db),
                         !.repeat =
                            /\ call.outcome = "ok"
                            /\ \/ IdsOf(last.chunks) \cap StoredIds(db) # {}
                               \/ Cardinality(IdsOf(last.chunks)) < Len(last.chunks)]
    /\ UNCHANGED <<SearchVars, RerankVars>>

\* clear() or delete_by_source(source_url) up to rowids = [r[0] for r in
\* rows]: the SELECT runs in autocommit mode on the database as committed
\* now.  With no rowid the call is over.
DeleteBegin(op, coll, source_url) ==
    /\ last.pc = "done"
    /\ \E rowids \in {SelectedRowids(db, op, coll, source_url)} :
          last' = [NoCall EXCEPT !.op = op, !.coll = coll,
                                 !.source_url = source_url, !.rowids = rowids,
                                 !.pc = IF rowids = {} THEN "done" ELSE "write"]
    /\ UNCHANGED <<db, SearchVars, RerankVars>>

\* store.clear() on a store bound to coll, up to its first write
ClearBegin(coll) == DeleteBegin("clear", coll, None)

\* store.delete_by_source(source_url) on a store bound to coll, up to its
\* first write
DeleteBySourceBegin(coll, source_url) ==
    DeleteBegin("delete_by_source", coll, source_url)

\* the rest of the clear or delete_by_source: the first DELETE opens the
\* transaction on the database as committed now; documents_vec loses the
\* rowids selected before, documents the rows that match the WHERE clause
\* now; commit
DeleteFinish ==
    /\ last.op \in DeleteOps
    /\ last.pc = "write"
    /\ \E after \in {DeleteRows(db, last.rowids,
                                SelectedRowids(db, last.op, last.coll,
                                               last.source_url))} :
          /\ db' = after
          /\ last' = [NoCall EXCEPT !.op = last.op, !.coll = last.coll,
                                    !.changed = (after # db)]
    /\ UNCHANGED <<SearchVars, RerankVars>>

\* the calls of one connection: each call runs to its end before the next
Next ==
    \/ \E coll \in Collections, batch \in Batches :
          \E trim \in TrimsOf(batch) : AddBegin(coll, batch, trim)
    \/ AddFinish
    \/ \E coll \in Collections : ClearBegin(coll)
    \/ \E coll \in Collections, source_url \in SourceUrls :
          DeleteBySourceBegin(coll, source_url)
    \/ DeleteFinish

Spec == Init /\ [][Next]_vars

----------------------------------------------------------------------------
(* SQLiteStore.search, statement by statement                              *)

QEmpty == <<>>
QBlank == <<" ", " ">>
QThe == <<"t", "h", "e">>
QFoo == <<"f", "o", "o">>
QTheBar == <<"\"", "t", "h", "e", " ", "b", "a", "r", "\"">>
QOof == <<"o", "o", "f">>
QBar == <<"b", "a", "r">>

QueryTexts == {QEmpty, QBlank, QThe, QFoo, QTheBar, QOof, QBar}

\* top_k values: the small ones, one whose pool lies between the two limits
\* and one whose pool is cut to MAX_POOL_SIZE
TopKs == (1..MaxTopK) \cup {11, 25}

\* search(query_embedding, query_text, top_k, semantic_only) up to and with
\* the semantic SELECT, which reads the database as committed at that moment;
\* a call that takes the semantic-only branch returns from here.
SearchBegin(coll, x, query_text, top_k, semantic_only) ==
    /\ search_pc = "idle"
    /\ \E sem \in {SemanticSelect(db, coll, SerializeEmbedding(Vec(x)),
                                  PoolSize(top_k))} :
          /\ semantic_results' = sem
          /\ sem_seen' = db
          /\ search_in' = [NoSearch EXCEPT !.entry = "SQLiteStore.search",
                              !.coll = coll, !.x = x, !.query_text = query_text,
                              !.top_k = top_k, !.semantic_only = semantic_only]
          /\ IF TakesSemanticBranch(query_text, semantic_only)
             THEN /\ search_pc' = "done"
                  /\ results' = SemanticOnlyResults(sem, top_k)
             ELSE /\ search_pc' = "keyword"
                  /\ results' = <<>>
    /\ UNCHANGED <<db, last, keyword_results, kw_seen, RerankVars>>

\* the rest of the hybrid branch: the keyword SELECT, skipped when the FTS
\* query is empty, reads the database as committed now; then the fusion.
SearchFinish ==
    /\ search_pc = "keyword"
    /\ IF ParseFtsQuery(search_in.query_text) = <<>>
       THEN /\ keyword_results' = <<>>
            /\ kw_seen' = sem_seen
            /\ results' = HybridResults(semantic_results, <<>>,
                                        search_in.query_text, search_in.top_k)
       ELSE \E bm25_order \in Bm25Orders(db, search_in.coll, search_in.query_text) :
            \E kw \in {KeywordSelect(db, bm25_order, PoolSize(search_in.top_k))} :
               /\ keyword_results' = kw
               /\ kw_seen' = db
               /\ results' = HybridResults(semantic_results, kw,
                                           search_in.query_text, search_in.top_k)
    /\ search_pc' = "done"
    /\ UNCHANGED <<db, last, search_in, semantic_results, sem_seen, RerankVars>>

\* the caller takes the list; the next call starts afresh
SearchReturn ==
    /\ search_pc = "done"
    /\ search_pc' = "idle"
    /\ search_in' = NoSearch
    /\ semantic_results' = <<>>
    /\ keyword_results' = <<>>
    /\ sem_seen' = EmptyDb
    /\ kw_seen' = EmptyDb
    /\ results' = <<>>
    /\ UNCHANGED <<db, last, RerankVars>>

----------------------------------------------------------------------------
(* embedder.py: Embedder over the Ollama client                            *)

\* the vector the embedding model gives a text
ModelVector(text) == Len(text) % 3

\* what the Ollama client does with one embed request.  It returns a
\* response: one vector per text ("ok"), no vector ("empty"), or vectors of
\* another model's dimension ("dimension").  Or it raises:
\* ollama.ResponseError ("ResponseError"), the ResponseError that says the
\* model was not found ("not found"), or another exception, as when the
\* service gives no answer ("no answer").
EmbedReplies == {"ok", "empty", "dimension", "ResponseError", "not found", "no answer"}

ResponseEmbeddings(texts, reply) ==
    IF reply = "empty" THEN <<>>
    ELSE IF reply = "dimension"
    THEN [i \in 1..Len(texts) |-> ShortVec(ModelVector(texts[i]))]
    ELSE [i \in 1..Len(texts) |-> Vec(ModelVector(texts[i]))]

\* Embedder.embed: a ResponseError other than "model ... not found" becomes
\* ConnectionError; every other exception of the request, and the
\* RuntimeError raised for a response without vectors, becomes RuntimeError
Embed(texts, reply) ==
    IF texts = <<>> THEN [outcome |-> "ValueError", embeddings |-> <<>>]
    ELSE IF reply = "ResponseError"
    THEN [outcome |-> "ConnectionError", embeddings |-> <<>>]
    ELSE IF reply \in {"not found", "no answer"}
    THEN [outcome |-> "RuntimeError", embeddings |-> <<>>]
    ELSE IF ResponseEmbeddings(texts, reply) = <<>>
    THEN [outcome |-> "RuntimeError", embeddings |-> <<>>]
    ELSE [outcome |-> "ok", embeddings |-> ResponseEmbeddings(texts, reply)]

\* Embedder.embed_query: ValueError for a blank query, else what embed of
\* the one text comes to
EmbedQuery(query, reply) ==
    IF Strip(query) = <<>> THEN "ValueError" ELSE Embed(<<query>>, reply).outcome

\* Embedder.__init__ with _verify_connection: ConnectionError when the list
\* request of the client raises; a missing model only prints a warning
NewEmbedder(list_up) == IF list_up THEN "ok" ELSE "ConnectionError"

----------------------------------------------------------------------------
(* search.py: HybridSearch over the ChromaDB VectorStore of store.py        *)

LEGACY_STOP_WORDS == {
    <<"a">>, <<"a", "n">>, <<"a", "n", "d">>, <<"a", "r", "e">>,
    <<"a", "s">>, <<"a", "t">>, <<"b", "e">>, <<"b", "y">>,
    <<"f", "o", "r">>, <<"f", "r", "o", "m">>, <<"h", "a", "s">>,
    <<"h", "e">>, <<"i", "n">>, <<"i", "s">>, <<"i", "t">>,
    <<"i", "t", "s">>, <<"o", "f">>, <<"o", "n">>, <<"t", "h", "a", "t">>,
    <<"t", "h", "e">>, <<"t", "o">>, <<"w", "a", "s">>,
    <<"w", "i", "l", "l">>, <<"w", "i", "t", "h">>}

\* the loop of VectorStore.add and its upsert on the collection c, the list
\* of its entries: the batch without the ids seen earlier in it is upserted
RECURSIVE ChromaUpsert(_, _, _, _, _)
ChromaUpsert(c, chunks, embeddings, i, seen_ids) ==
    IF i > Len(chunks) THEN c
    ELSE LET chunk_id == GenerateId(chunks[i].content, chunks[i].metadata.source_url)
             entry == [id |-> chunk_id, document |-> chunks[i].content,
                       metadata |-> PrepareMetadata(chunks[i].metadata),
                       embedding |-> embeddings[i]]
             at == {k \in 1..Len(c) : c[k].id = chunk_id}
         IN IF chunk_id \in seen_ids
            THEN ChromaUpsert(c, chunks, embeddings, i + 1, seen_ids)
            ELSE ChromaUpsert(IF at = {} THEN Append(c, entry)
                              ELSE [c EXCEPT ![CHOOSE k \in at : TRUE] = entry],
                              chunks, embeddings, i + 1, seen_ids \cup {chunk_id})

\* VectorStore.add: nothing for an empty list of chunks, ValueError for lists
\* of unequal length, else the upsert
VectorStoreAdd(c, chunks, embeddings) ==
    IF chunks = <<>> THEN [outcome |-> "ok", collection |-> c]
    ELSE IF Len(chunks) # Len(embeddings)
    THEN [outcome |-> "ValueError", collection |-> c]
    ELSE [outcome |-> "ok", collection |-> ChromaUpsert(c, chunks, embeddings, 1, {})]

\* the squared L2 distance ChromaDB reports
ChromaDistance(entry, x) == (entry.embedding.x - x) * (entry.embedding.x - x)

\* VectorStore.search: the top_k entries nearest to the query, as
\* SearchResult objects with score 1 / (1 + distance)
ChromaPlaces(c, x) ==
    {<<Cardinality({j \in 1..Len(c) :
          \/ ChromaDistance(c[j], x) < ChromaDistance(c[i], x)
          \/ ChromaDistance(c[j], x) = ChromaDistance(c[i], x) /\ j < i}) + 1, i>> :
        i \in 1..Len(c)}

VectorStoreSearch(c, x, top_k) ==
    [p \in 1..Min2(top_k, Len(c)) |->
        LET e == c[(CHOOSE q \in ChromaPlaces(c, x) : q[1] = p)[2]]
        IN [content    |-> e.document,
            source_url |-> e.metadata.source_url,
            section    |-> e.metadata.section,
            score      |-> <<1, 1 + ChromaDistance(e, x)>>,
            metadata   |-> e.metadata]]

\* HybridSearch._normalize_text
NormalizeText(text) == Strip(Lower(text))

\* re.findall(r'\b\w+\b', text): the maximal runs of word characters
RECURSIVE WordRuns(_, _, _)
WordRuns(s, cur, acc) ==
    IF s = <<>> THEN (IF cur = <<>> THEN acc ELSE Append(acc, cur))
    ELSE IF IsWordChar(Head(s))
         THEN WordRuns(Tail(s), Append(cur, Head(s)), acc)
         ELSE WordRuns(Tail(s), <<>>, IF cur = <<>> THEN acc ELSE Append(acc, cur))

\* HybridSearch._extract_query_terms
ExtractQueryTerms(query) ==
    SelectSeq(WordRuns(NormalizeText(query), <<>>, <<>>),
              LAMBDA t : Len(t) > 1 /\ t \notin LEGACY_STOP_WORDS)

\* text.count(term): the occurrences that do not overlap, from the left
RECURSIVE CountFrom(_, _, _)
CountFrom(text, term, i) ==
    IF i + Len(term) - 1 > Len(text) THEN 0
    ELSE IF SubSeq(text, i, i + Len(term) - 1) = term
         THEN 1 + CountFrom(text, term, i + Len(term))
         ELSE CountFrom(text, term, i + 1)

\* HybridSearch._keyword_score
RECURSIVE KeywordScore(_, _)
KeywordScore(text, query_terms) ==
    IF query_terms = <<>> THEN 0
    ELSE CountFrom(NormalizeText(text), Head(query_terms), 1)
         + KeywordScore(text, Tail(query_terms))

\* f"{doc.source_url}:{hash(doc.content)}", the hash taken to be collision free
LegacyKey(doc) == <<doc.source_url, doc.content>>

\* the candidate pool of HybridSearch.search: the semantic results, then the
\* results of the generic query that are new by key and equal to no
\* semantic result
CandidatePool(semantic, expanded) ==
    semantic \o
    SelectSeq(expanded,
              LAMBDA doc :
                 /\ doc = expanded[CHOOSE i \in 1..Len(expanded) :
                               /\ LegacyKey(expanded[i]) = LegacyKey(doc)
                               /\ \A j \in 1..(i - 1) :
                                     LegacyKey(expanded[j]) # LegacyKey(doc)]
                 /\ \A k \in 1..Len(semantic) : semantic[k] # doc)

\* HybridSearch._keyword_search: the documents of the pool with a score above
\* 0, highest score first, the first top_k of them
LegacyKeywordSearch(query, top_k, candidate_pool) ==
    LET query_terms == ExtractQueryTerms(query)
        Total(doc) == KeywordScore(doc.content, query_terms)
                      + 2 * KeywordScore(doc.section, query_terms)
        hits == SelectSeq(candidate_pool, LAMBDA doc : Total(doc) > 0)
        scored_docs == [i \in 1..Len(hits) |->
                          [doc |-> hits[i], score |-> FloatOfInt(Total(hits[i]))]]
        top_docs == Truncate(SortByScoreDesc(scored_docs), top_k)
    IN IF query_terms = <<>> THEN <<>>
       ELSE [i \in 1..Len(top_docs) |-> top_docs[i].doc]

\* HybridSearch._rrf_score
LegacyRrfScore(semantic_rank, keyword_rank) ==
    LET semantic == IF semantic_rank # NoRank
                    THEN FloatAdd(FloatZero,
                                  FloatDiv(FloatOfInt(1), RRF_K + semantic_rank[1]))
                    ELSE FloatZero
    IN IF keyword_rank # NoRank
       THEN FloatAdd(semantic, FloatDiv(FloatOfInt(1), RRF_K + keyword_rank[1]))
       ELSE semantic

\* HybridSearch._combine_results and the scoring loop of search: one result
\* per key, in the order the keys entered the dict
LegacyCombine(semantic, keyword) ==
    LET sem == [i \in 1..Len(semantic) |->
                  [id |-> LegacyKey(semantic[i]), doc |-> semantic[i]]]
        kw  == [i \in 1..Len(keyword) |->
                  [id |-> LegacyKey(keyword[i]), doc |-> keyword[i]]]
        InKw(key) == \E j \in 1..Len(kw) : kw[j].id = key
        InSem(key) == \E i \in 1..Len(sem) : sem[i].id = key
        KwRank(key) == IF InKw(key) THEN Rank(LastPlace(kw, key)) ELSE NoRank
        Result(doc, semantic_rank, keyword_rank) ==
            [content       |-> doc.content,
             source_url    |-> doc.source_url,
             section       |-> doc.section,
             score         |-> LegacyRrfScore(semantic_rank, keyword_rank),
             semantic_rank |-> semantic_rank,
             keyword_rank  |-> keyword_rank]
        firsts == FirstPlaces(sem)
        fresh  == SelectSeq(FirstPlaces(kw), LAMBDA j : ~InSem(kw[j].id))
    IN [k \in 1..Len(firsts) |->
          LET rank == LastPlace(sem, sem[firsts[k]].id)
          IN Result(sem[rank].doc, Rank(rank), KwRank(sem[rank].id))]
       \o
       [k \in 1..Len(fresh) |->
          Result(kw[fresh[k]].doc, NoRank, KwRank(kw[fresh[k]].id))]

\* the replies to the embed request of a query that reach the code of the
\* search: vectors of the model's dimension, or one of the failures
QueryReplies == EmbedReplies \ {"dimension"}

Documentation == <<"d", "o", "c", "u", "m", "e", "n", "t", "a", "t", "i", "o", "n">>

\* HybridSearch._semantic_search on a searcher whose VectorStore holds c:
\* the embed request of the query, whose vector is x, then the read of the
\* collection
SemanticSearch(c, query, top_k, x, reply) ==
    LET embedded == EmbedQuery(query, reply)
    IN IF embedded # "ok" THEN [outcome |-> embedded, results |-> <<>>]
       ELSE [outcome |-> "ok", results |-> VectorStoreSearch(c, x, top_k)]

\* HybridSearch._get_candidate_pool: the embed request of "documentation",
\* whose vector is generic_x, then the read of the collection; the empty
\* list when anything raised
GetCandidatePool(c, top_k, generic_x, reply) ==
    IF EmbedQuery(Documentation, reply) # "ok" THEN <<>>
    ELSE VectorStoreSearch(c, generic_x, Min2(top_k * 3, 50))

\* a search that goes on to embed a blank query
BeginWithoutEmptyCheck(c, query, top_k, x, reply) ==
    LET semantic == SemanticSearch(c, query, top_k, x, reply)
    IN [returned |-> semantic.outcome # "ok", outcome |-> semantic.outcome,
        semantic_results |-> semantic.results]

\* HybridSearch.search up to and with _semantic_search: `if not query or not
\* query.strip(): return []`, then the semantic search, which reads the
\* collection as it is at that moment.  returned says that the call is over.
HybridSearchBegin(c, query, top_k, x, reply) ==
    IF query = <<>> \/ Strip(query) = <<>>
    THEN [returned |-> TRUE, outcome |-> "ok", semantic_results |-> <<>>]
    ELSE LET semantic == SemanticSearch(c, query, top_k, x, reply)
         IN [returned |-> semantic.outcome # "ok", outcome |-> semantic.outcome,
             semantic_results |-> semantic.results]

\* the rest of HybridSearch.search: the candidate pool, read from the
\* collection as it is now, the keyword search on it, the fusion
HybridSearchFinish(semantic, c, query, top_k, generic_x, reply) ==
    LET expanded == GetCandidatePool(c, top_k, generic_x, reply)
        candidate_pool == CandidatePool(semantic, expanded)
        keyword == LegacyKeywordSearch(query, top_k, candidate_pool)
        hybrid_results == LegacyCombine(semantic, keyword)
    IN Truncate(SortByScoreDesc(hybrid_results), top_k)

\* HybridSearch.search while nothing else writes to the collection
HybridSearchSearch(c, query, top_k, x, generic_x, reply, generic_reply) ==
    LET begun == HybridSearchBegin(c, query, top_k, x, reply)
    IN IF begun.returned THEN [outcome |-> begun.outcome, results |-> <<>>]
       ELSE [outcome |-> "ok",
             results |-> HybridSearchFinish(begun.semantic_results, c, query,
                                            top_k, generic_x, generic_reply)]

\* search(query, top_k, collection) of search.py while nothing else writes:
\* HybridSearch(collection) builds an Embedder, then
\* searcher.search(query, top_k)
ConvenienceSearch(c, query, top_k, x, generic_x, list_up, reply, generic_reply) ==
    IF NewEmbedder(list_up) # "ok"
    THEN [outcome |-> NewEmbedder(list_up), results |-> <<>>]
    ELSE HybridSearchSearch(c, query, top_k, x, generic_x, reply, generic_reply)

\* the chunks of the collections a VectorStore holds
LegacyPairs ==
    << [chunk |-> MkChunk(Foo, Url1, SecFoo, <<SecFoo>>), embedding |-> Vec(0)],
       [chunk |-> MkChunk(Bar, Url2, SecBar, <<SecBar>>), embedding |-> Vec(2)] >>

LegacyBatches == UNION {[1..n -> 1..Len(LegacyPairs)] : n \in 0..MaxBatch}

LegacyCollection(batch) ==
    VectorStoreAdd(<<>>, [i \in 1..Len(batch) |-> LegacyPairs[batch[i]].chunk],
                   [i \in 1..Len(batch) |-> LegacyPairs[batch[i]].embedding]).collection

\* what a collection can hold
LegacyCollections == {LegacyCollection(batch) : batch \in LegacyBatches}

LegacyEntries == {"HybridSearch.search", "search"}

\* the vector of "documentation"
GenericX == 3

\* a call of an entry point of search.py on a collection that holds c, up
\* to and with the first read of the collection: search builds its searcher
\* first, while the searcher of HybridSearch.search was built when the list
\* request was answered.  A call that returns or raises before the read is
\* over.
LegacyBegin(entry, c, query, top_k, x, list_up, reply) ==
    /\ search_pc = "idle"
    /\ \E begun \in {IF entry = "search" /\ NewEmbedder(list_up) # "ok"
                     THEN [returned |-> TRUE, outcome |-> NewEmbedder(list_up),
                           semantic_results |-> <<>>]
                     ELSE HybridSearchBegin(c, query, top_k, x, reply)} :
          /\ search_in' = [NoSearch EXCEPT !.entry = entry, !.x = x,
                              !.query_text = query, !.top_k = top_k,
                              !.list_up = list_up, !.outcome = begun.outcome]
          /\ semantic_results' = begun.semantic_results
          /\ search_pc' = IF begun.returned THEN "done" ELSE "pool"
    /\ results' = <<>>
    /\ UNCHANGED <<db, last, keyword_results, sem_seen, kw_seen, RerankVars>>

\* the rest of the call, after the wait for the embedding of
\* "documentation": c is what the collection holds now, which other
\* VectorStores may have written since the first read
LegacyFinish(c, reply) ==
    /\ search_pc = "pool"
    /\ results' = HybridSearchFinish(semantic_results, c, search_in.query_text,
                                     search_in.top_k, GenericX, reply)
    /\ search_pc' = "done"
    /\ UNCHANGED <<db, last, search_in, semantic_results, keyword_results,
                   sem_seen, kw_seen, RerankVars>>

----------------------------------------------------------------------------
(* query_expander.py: QueryExpander                                        *)

\* s.lstrip(chars) and s.rstrip(chars)
RECURSIVE LStripChars(_, _)
LStripChars(s, chars) ==
    IF s # <<>> /\ Head(s) \in chars THEN LStripChars(Tail(s), chars) ELSE s

RECURSIVE RStripChars(_, _)
RStripChars(s, chars) ==
    IF s # <<>> /\ s[Len(s)] \in chars
    THEN RStripChars(SubSeq(s, 1, Len(s) - 1), chars) ELSE s

\* s.split(sep) for a separator of one character: the pieces between the
\* separators, the empty ones too
RECURSIVE SplitOn(_, _, _, _)
SplitOn(s, sep, cur, acc) ==
    IF s = <<>> THEN Append(acc, cur)
    ELSE IF Head(s) = sep THEN SplitOn(Tail(s), sep, <<>>, Append(acc, cur))
    ELSE SplitOn(Tail(s), sep, Append(cur, Head(s)), acc)

\* s.split(sep, 1)[1]: what follows the first separator
AfterFirst(s, sep) ==
    LET at == CHOOSE i \in 1..Len(s) : s[i] = sep /\ \A j \in 1..(i - 1) : s[j] # sep
    IN SubSeq(s, at + 1, Len(s))

\* the bullet characters of lstrip that the alphabet has, and the quotes
BulletChars == {"-", "*"}
QuoteChars == {"\"", "'"}

MetaWords == {<<"h", "e", "r", "e">>,
              <<"a", "l", "t", "e", "r", "n", "a", "t", "i", "v", "e">>,
              <<"v", "a", "r", "i", "a", "t", "i", "o", "n">>,
              <<"q", "u", "e", "r", "y">>}

\* one line of the response as the loop of _parse_response cleans it
CleanLine(raw) ==
    LET line1 == Strip(raw)
        line2 == IF /\ line1 # <<>>
                    /\ line1[1] \in DigitChars
                    /\ \E i \in 1..Min2(4, Len(line1)) : line1[i] = "."
                 THEN Strip(AfterFirst(line1, "."))
                 ELSE line1
        line3 == Strip(LStripChars(line2, BulletChars))
    IN RStripChars(LStripChars(line3, QuoteChars), QuoteChars)

\* QueryExpander._parse_response
ParseResponse(response) ==
    IF response = <<>> THEN <<>>
    ELSE LET lines == SplitOn(Strip(response), "\n", <<>>, <<>>)
             cleaned == [i \in 1..Len(lines) |-> CleanLine(lines[i])]
         IN SelectSeq(cleaned,
                      LAMBDA line : /\ line # <<>>
                                    /\ \A w \in MetaWords : ~IsPrefix(w, Lower(line)))

\* QueryExpander.expand; reply is what self._client.generate does: it raises
\* (kind "ResponseError" or "Exception") or returns a response with this text
ExpandCall(query, reply, num_variations) ==
    IF query = None \/ query = <<>> \/ Strip(query) = <<>>
    THEN [outcome |-> "ok", result |-> <<query>>]
    ELSE IF reply.kind # "text"
    THEN [outcome |-> "ok", result |-> <<Strip(query)>>]
    ELSE LET variations == ParseResponse(reply.text)
             kept == SelectSeq(variations,
                               LAMBDA var : /\ var # <<>>
                                            /\ Strip(var) # <<>>
                                            /\ Strip(var) # Strip(query))
             result == <<Strip(query)>> \o [i \in 1..Len(kept) |-> Strip(kept[i])]
         IN [outcome |-> "ok",
             result |-> SubSeq(result, 1, Min2(Len(result), num_variations + 1))]

\* the queries handed to expand
PaddedFoo == <<" ", "f", "o", "o">>
ExpandQueries == {QEmpty, QBlank, QFoo, PaddedFoo, QBar}

\* the lines a response is made of
ResponseLines ==
    << <<"f", "o", "o">>,
       <<"b", "a", "r">>,
       <<"1", ".", " ", "b", "a", "r">>,
       <<"-", " ", "\"", "o", "o", "f", "\"">>,
       <<"H", "e", "r", "e", " ", "f", "o", "o">>,
       <<>> >>

ResponseTexts ==
    {Join(<<"\n">>, [i \in 1..Len(pick) |-> ResponseLines[pick[i]]]) :
        pick \in UNION {[1..n -> 1..Len(ResponseLines)] : n \in 0..MaxLines}}

Replies ==
    {[kind |-> "ResponseError", text |-> <<>>], [kind |-> "Exception", text |-> <<>>]}
    \cup {[kind |-> "text", text |-> t] : t \in ResponseTexts}

\* one call of QueryExpander(num_variations=...).expand(query), start to return
Expand(query, reply, num_variations) ==
    /\ search_pc = "idle"
    /\ \E call \in {ExpandCall(query, reply, num_variations)} :
          /\ search_in' = [entry |-> "QueryExpander.expand", query_text |-> query,
                           reply |-> reply, num_variations |-> num_variations,
                           outcome |-> call.outcome]
          /\ results' = call.result
    /\ search_pc' = "done"
    /\ UNCHANGED <<db, last, semantic_results, keyword_results, sem_seen, kw_seen,
                   RerankVars>>

NextExpand ==
    \/ \E query \in ExpandQueries, reply \in Replies,
          num_variations \in 0..MaxVariations :
          Expand(query, reply, num_variations)
    \/ SearchReturn

SpecExpand == Init /\ [][NextExpand]_vars

----------------------------------------------------------------------------
(* reranker.py: Reranker and rerank_results                                *)

\* seq[:k] of Python, for an integer k of either sign
SliceTo(seq, k) ==
    IF k >= 0 THEN SubSeq(seq, 1, Min2(k, Len(seq)))
    ELSE SubSeq(seq, 1, Max2(Len(seq) + k, 0))

\* the items left as the caller's zip(results, scores) pairs them
InputOrder(items) == items

\* rerank_results.sort(key=lambda x: x.rerank_score, reverse=True): by
\* descending score, items of equal score in the order they had
SortByRerankScore(items) ==
    LET placed == {<<1 + Cardinality({j \in 1..Len(items) :
                            \/ items[j].rerank_score > items[i].rerank_score
                            \/ /\ items[j].rerank_score = items[i].rerank_score
                               /\ j < i}), i>> : i \in 1..Len(items)}
    IN [p \in 1..Len(items) |-> items[(CHOOSE pair \in placed : pair[1] = p)[2]]]

\* the body of Reranker.rerank; scores is what self.model.predict(pairs)
\* returns, one score for each pair; top_k is <<>> for None, or <<k>>
Rerank(query, candidates, top_k, scores) ==
    IF candidates = <<>> THEN <<>>
    ELSE LET rerank_results ==
                 SortByRerankScore(
                     [i \in 1..Min2(Len(candidates), Len(scores)) |->
                         [original_result |-> candidates[i],
                          rerank_score |-> scores[i],
                          original_score |-> candidates[i].score]])
         IN IF top_k # <<>> THEN SliceTo(rerank_results, top_k[1])
            ELSE rerank_results

\* the search results handed to the reranker: three objects, two of them
\* with the same content and score
Candidates ==
    {[ref |-> 1, content |-> Foo, score |-> <<1, 61>>],
     [ref |-> 2, content |-> Bar, score |-> <<1, 62>>],
     [ref |-> 3, content |-> Foo, score |-> <<1, 61>>]}

CandidateLists ==
    {list \in UNION {[1..n -> Candidates] : n \in 0..MaxCandidates} :
        \A i, j \in 1..Len(list) : list[i].ref = list[j].ref => i = j}

RerankTopKs == {<<>>} \cup {<<k>> : k \in 0..MaxCandidates}

ScoresFor(candidates) == [1..Len(candidates) -> 0..MaxScore]

\* Reranker.__init__
NewReranker ==
    /\ search_pc = "idle"
    /\ Len(rerankers) < MaxRerankers
    /\ IF CrossEncoder = None
       THEN /\ search_in' = [entry |-> "Reranker", outcome |-> "ImportError"]
            /\ UNCHANGED rerankers
       ELSE /\ search_in' = [entry |-> "Reranker", outcome |-> "ok"]
            /\ rerankers' = Append(rerankers, [_model |-> <<>>])
    /\ search_pc' = "done"
    /\ UNCHANGED <<db, last, semantic_results, keyword_results, sem_seen, kw_seen,
                   results, CrossEncoder, constructed>>

\* where rerank stands after `if not results: return []` and the test
\* `self._model is None` of the property, on a Reranker whose _model is this
\* one (<<>> for None, or the <<n>> of the n-th model constructed): over,
\* about to construct a CrossEncoder, or about to predict
RerankPc(_model, candidates) ==
    IF candidates = <<>> THEN "done"
    ELSE IF _model = <<>> THEN "load"
    ELSE "predict"

\* rerankers[self].rerank(query, candidates, top_k) up to the test of the
\* property.  Loading the model and predicting take time, and other threads
\* run meanwhile.
RerankerRerank(self, query, candidates, top_k) ==
    /\ search_pc = "idle"
    /\ self \in DOMAIN rerankers
    /\ search_in' = [entry |-> "Reranker.rerank", outcome |-> "ok", self |-> self,
                     query_text |-> query, candidates |-> candidates,
                     top_k |-> top_k, scores |-> <<>>]
    /\ results' = <<>>
    /\ search_pc' = RerankPc(rerankers[self]._model, candidates)
    /\ UNCHANGED <<db, last, semantic_results, keyword_results, sem_seen, kw_seen,
                   RerankVars>>

\* rerank_results(query, candidates, top_k): a Reranker of its own, which no
\* other thread holds (self is 0), then its rerank up to the test of the
\* property
RerankResults(query, candidates, top_k) ==
    /\ search_pc = "idle"
    /\ search_in' = [entry |-> "rerank_results",
                     outcome |-> IF CrossEncoder = None THEN "ImportError" ELSE "ok",
                     self |-> 0, query_text |-> query, candidates |-> candidates,
                     top_k |-> top_k, scores |-> <<>>]
    /\ results' = <<>>
    /\ search_pc' = IF CrossEncoder = None THEN "done"
                    ELSE RerankPc(<<>>, candidates)
    /\ UNCHANGED <<db, last, semantic_results, keyword_results, sem_seen, kw_seen,
                   RerankVars>>

\* self._model = CrossEncoder(...): the model is constructed and assigned,
\* whatever _model holds by now
AssignModel(self) ==
    /\ constructed < MaxConstructed
    /\ constructed' = constructed + 1
    /\ rerankers' = IF self = 0 THEN rerankers
                    ELSE [rerankers EXCEPT ![self]._model = <<constructed + 1>>]

\* the property of the call in flight constructs its model
RerankLoad ==
    /\ search_pc = "load"
    /\ AssignModel(search_in.self)
    /\ search_pc' = "predict"
    /\ UNCHANGED <<db, last, search_in, semantic_results, keyword_results,
                   sem_seen, kw_seen, results, CrossEncoder>>

\* self.model.predict(pairs) returns scores, and the rest of rerank
RerankPredict(scores) ==
    /\ search_pc = "predict"
    /\ scores \in ScoresFor(search_in.candidates)
    /\ search_in' = [search_in EXCEPT !.scores = scores]
    /\ results' = Rerank(search_in.query_text, search_in.candidates,
                         search_in.top_k, scores)
    /\ search_pc' = "done"
    /\ UNCHANGED <<db, last, semantic_results, keyword_results, sem_seen, kw_seen,
                   RerankVars>>

\* a second thread of the process calls rerank on one of the Rerankers; its
\* call stands in last
OtherRerank(self, query, candidates, top_k) ==
    /\ last.pc = "done"
    /\ self \in DOMAIN rerankers
    /\ last' = [op |-> "Reranker.rerank", outcome |-> "ok", self |-> self,
                query_text |-> query, candidates |-> candidates, top_k |-> top_k,
                scores |-> <<>>, results |-> <<>>,
                pc |-> RerankPc(rerankers[self]._model, candidates)]
    /\ UNCHANGED <<db, SearchVars, RerankVars>>

OtherLoad ==
    /\ last.pc = "load"
    /\ AssignModel(last.self)
    /\ last' = [last EXCEPT !.pc = "predict"]
    /\ UNCHANGED <<db, SearchVars, CrossEncoder>>

OtherPredict(scores) ==
    /\ last.pc = "predict"
    /\ scores \in ScoresFor(last.candidates)
    /\ last' = [last EXCEPT !.scores = scores, !.pc = "done",
                            !.results = Rerank(last.query_text, last.candidates,
                                               last.top_k, scores)]
    /\ UNCHANGED <<db, SearchVars, RerankVars>>

----------------------------------------------------------------------------
(* main.py: search_command, over search of search.py                       *)

\* the parameters of search(query, top_k=5, collection="gemini")
SearchParameters == {"query", "top_k", "collection"}

\* search(**kwargs) as Python binds the call: a keyword that names no
\* parameter raises TypeError before the body runs; c is what the collection
\* named kwargs.collection holds
SearchWithKeywords(kwargs, c, x, list_up, reply, generic_reply) ==
    IF ~(DOMAIN kwargs \subseteq SearchParameters)
    THEN [outcome |-> "TypeError", results |-> <<>>]
    ELSE ConvenienceSearch(c, kwargs.query, kwargs.top_k, x, GenericX, list_up,
                           reply, generic_reply)

\* search_command(args): the results it prints, or the exit of its handler
\* of Exception; warned tells whether a warning was emitted
SearchCommandCall(args, c, x, list_up, reply, generic_reply) ==
    LET call == SearchWithKeywords([query |-> args.query, top_k |-> args.top_k,
                                    collection |-> args.collection,
                                    rerank |-> ~args.no_rerank,
                                    expand_query |-> ~args.no_expand],
                                   c, x, list_up, reply, generic_reply)
    IN IF call.outcome # "ok"
       THEN [outcome |-> "SystemExit", error |-> call.outcome, results |-> <<>>,
             warned |-> FALSE]
       ELSE [outcome |-> "ok", error |-> "none", results |-> call.results,
             warned |-> FALSE]

CommandArgs ==
    [query : {QEmpty, QFoo}, top_k : 1..MaxTopK, collection : {"gemini"},
     no_rerank : BOOLEAN, no_expand : BOOLEAN]

\* one run of search_command, start to return or exit: the call of search
\* raises when Python binds its keywords, before anything is read
SearchCommand(args, c, x, list_up, reply) ==
    /\ search_pc = "idle"
    /\ \E call \in {SearchCommandCall(args, c, x, list_up, reply, reply)} :
          /\ search_in' = [entry |-> "search_command", args |-> args, c |-> c, x |-> x,
                           list_up |-> list_up, reply |-> reply,
                           outcome |-> call.outcome,
                           error |-> call.error, warned |-> call.warned]
          /\ results' = call.results
    /\ search_pc' = "done"
    /\ UNCHANGED <<db, last, semantic_results, keyword_results, sem_seen, kw_seen,
                   RerankVars>>

\* a process that has imported reranker.py, with or without
\* sentence-transformers installed
InitRerank ==
    /\ db = EmptyDb
    /\ last = NoCall
    /\ SearchIdle
    /\ CrossEncoder \in {None, <<"CrossEncoder">>}
    /\ rerankers = <<>>
    /\ constructed = 0

\* the candidates of the second thread: one search result, which its model
\* scores 0
OtherCandidateLists ==
    {list \in CandidateLists : Len(list) = 1 /\ list[1].ref = 1}

OtherScores == {[i \in 1..1 |-> 0]}

NextRerank ==
    \/ NewReranker
    \/ \E self \in 1..MaxRerankers, candidates \in CandidateLists, top_k \in RerankTopKs :
          RerankerRerank(self, QFoo, candidates, top_k)
    \/ \E candidates \in CandidateLists, top_k \in RerankTopKs :
          RerankResults(QFoo, candidates, top_k)
    \/ RerankLoad
    \/ \E scores \in UNION {ScoresFor(candidates) : candidates \in CandidateLists} :
          RerankPredict(scores)
    \/ \E self \in 1..MaxRerankers, candidates \in OtherCandidateLists :
          OtherRerank(self, QFoo, candidates, <<>>)
    \/ OtherLoad
    \/ \E scores \in OtherScores : OtherPredict(scores)
    \/ \E args \in CommandArgs, batch \in {<<>>, <<1, 2>>}, list_up \in BOOLEAN,
          reply \in {"ok", "no answer"} :
          SearchCommand(args, LegacyCollection(batch), 0, list_up, reply)
    \/ SearchReturn

SpecRerank == InitRerank /\ [][NextRerank]_vars

----------------------------------------------------------------------------
(* chunker.py: MarkdownChunker                                             *)

\* the character of a text at a place, "" outside the text
At(t, i) == IF i \in 1..Len(t) THEN t[i] ELSE ""

\* whether the literal stands in the text at place i
HasAt(t, i, lit) == \A k \in 1..Len(lit) : At(t, i + k - 1) = lit[k]

\* the least element of S that is at least p, or otherwise
FirstFrom(S, p, otherwise) ==
    IF \E i \in S : i >= p
    THEN CHOOSE i \in S : i >= p /\ \A j \in S : j >= p => i <= j
    ELSE otherwise

\* the elements of a set of numbers in ascending order
Ascending(S) ==
    <<>> \o [k \in 1..Cardinality(S) |->
                CHOOSE i \in S : Cardinality({j \in S : j < i}) = k - 1]

\* where the whitespace that starts at place i ends
RECURSIVE SkipSpace(_, _)
SkipSpace(t, i) == IF IsSpace(At(t, i)) THEN SkipSpace(t, i + 1) ELSE i

Newlines(t) == {i \in 1..Len(t) : t[i] = "\n"}

\* the end (exclusive) of the line that place i is on
LineEnd(t, newlines, i) == FirstFrom(newlines, i, Len(t) + 1)

CommentOpen == <<"<", "!", "-", "-">>
CommentSource == <<"S", "o", "u", "r", "c", "e", ":">>
CommentClose == <<"-", "-", ">">>

\* the places where a url that starts at place p can end: (.+?) takes one or
\* more characters of one line, then whitespace and --> follow
UrlEnds(t, p) ==
    {g \in p..Len(t) :
        /\ \A w \in p..g : t[w] # "\n"
        /\ HasAt(t, SkipSpace(t, g + 1), CommentClose)}

\* SOURCE_PATTERN <!--\s*Source:\s*(.+?)\s*--> matched at place i. The \s*
\* after Source: takes all the whitespace and gives it back character by
\* character until the rest matches, so the url starts at the last place
\* from which a url can be found; (.+?) then takes the shortest such url.
\* The match as [from, to, url], to exclusive, or <<>>.
SourceMatchAt(t, i) ==
    IF ~HasAt(t, i, CommentOpen) THEN <<>>
    ELSE LET j == SkipSpace(t, i + 4)
         IN IF ~HasAt(t, j, CommentSource) THEN <<>>
            ELSE LET starts == {p \in (j + 7)..SkipSpace(t, j + 7) :
                                   UrlEnds(t, p) # {}}
                 IN IF starts = {} THEN <<>>
                    ELSE LET p == Max(starts)
                             g == FirstFrom(UrlEnds(t, p), p, 0)
                         IN <<[from |-> i, to |-> SkipSpace(t, g + 1) + 3,
                               url |-> SubSeq(t, p, g)]>>

\* SOURCE_PATTERN.search(text): the first match, or <<>>
SourceSearch(t) ==
    LET starts == {i \in 1..Len(t) : t[i] = "<" /\ SourceMatchAt(t, i) # <<>>}
    IN IF starts = {} THEN <<>> ELSE SourceMatchAt(t, FirstFrom(starts, 1, 0))

\* MarkdownChunker._extract_source_url
ExtractSourceUrl(content) ==
    IF SourceSearch(content) = <<>> THEN None ELSE SourceSearch(content)[1].url

\* SOURCE_PATTERN.sub('', text)
RECURSIVE RemoveSourceComments(_)
RemoveSourceComments(t) ==
    LET found == SourceSearch(t)
    IN IF found = <<>> THEN t
       ELSE SubSeq(t, 1, found[1].from - 1)
            \o RemoveSourceComments(SubSeq(t, found[1].to, Len(t)))

\* a heading pattern ^(#{lo,hi})\s+(.+)$ with re.MULTILINE matched at place
\* i: a line start, the hashes, whitespace, and a title of one or more
\* characters up to the end of its line.  \s+ takes all the whitespace; the
\* title then starts where the whitespace ends.  When the whitespace runs to
\* the end of the text, \s+ gives it back character by character and the
\* title starts at the last whitespace character, after the first, that is
\* no newline.  The match as [from, to, level, title], or <<>>.
HeadingMatchAt(t, newlines, i, lo, hi) ==
    LET hashes == {h \in lo..hi : /\ \A k \in 0..(h - 1) : At(t, i + k) = "#"
                                  /\ IsSpace(At(t, i + h))}
    IN IF ~(i = 1 \/ At(t, i - 1) = "\n") \/ hashes = {} THEN <<>>
       ELSE LET h == Max(hashes)
                given_back == {p \in (i + h + 1)..Len(t) : t[p] # "\n"}
                g == IF SkipSpace(t, i + h) <= Len(t) THEN SkipSpace(t, i + h)
                     ELSE IF given_back # {} THEN Max(given_back)
                     ELSE 0
                to == LineEnd(t, newlines, g)
            IN IF g = 0 THEN <<>>
               ELSE <<[from |-> i, to |-> to, level |-> h, title |-> SubSeq(t, g, to - 1)]>>

\* pattern.finditer(text): the matches from place p on, none inside another
RECURSIVE HeadingMatchesFrom(_, _, _, _, _, _)
HeadingMatchesFrom(t, newlines, starts, p, lo, hi) ==
    IF ~(\E i \in starts : i >= p) THEN <<>>
    ELSE LET i == FirstFrom(starts, p, 0)
             found == HeadingMatchAt(t, newlines, i, lo, hi)
         IN found \o HeadingMatchesFrom(t, newlines, starts, found[1].to, lo, hi)

HeadingMatches(t, lo, hi) ==
    LET newlines == Newlines(t)
        starts == {i \in {1} \cup {n + 1 : n \in newlines} :
                      HeadingMatchAt(t, newlines, i, lo, hi) # <<>>}
    IN HeadingMatchesFrom(t, newlines, starts, 1, lo, hi)

\* MarkdownChunker._extract_page_title: H1_PATTERN
ExtractPageTitle(content) ==
    LET found == HeadingMatches(content, 1, 1)
    IN IF found = <<>> THEN None ELSE found[1].title

\* the backquote, which a string of this notation cannot hold, is written "~"
Backquote == "~"
Fence == <<Backquote, Backquote, Backquote>>

\* the lines CODE_BLOCK_PATTERN takes for indented code: four or more spaces
\* or a tab at the line start, then one or more characters of the line
IndentedLines(t) ==
    {i \in {1} \cup {n + 1 : n \in Newlines(t)} :
        \/ HasAt(t, i, <<" ", " ", " ", " ">>) /\ At(t, i + 4) \notin {"", "\n"}
        \/ At(t, i) = "\t" /\ At(t, i + 1) \notin {"", "\n"}}

\* where the indented block ends (exclusive) whose line starts at place s:
\* the end of the last of the indented lines that follow one another
RECURSIVE IndentedEnd(_, _, _, _)
IndentedEnd(t, newlines, lines, s) ==
    LET e == LineEnd(t, newlines, s)
    IN IF (e + 1) \in lines THEN IndentedEnd(t, newlines, lines, e + 1) ELSE e

\* CODE_BLOCK_PATTERN.finditer(text) from place p on.  At a place the
\* fenced alternative (a fence, anything, the next fence) is tried first,
\* then the indented one, which starts at the start of the text or at the
\* newline before its first line.  The ranges as [from, to], to exclusive.
RECURSIVE CodeRangesFrom(_, _, _, _, _)
CodeRangesFrom(t, newlines, fences, lines, p) ==
    LET fenced == {i \in fences : i >= p /\ \E j \in fences : j >= i + 3}
        indented == {q \in lines \cup {n \in newlines : (n + 1) \in lines} : q >= p}
    IN IF fenced \cup indented = {} THEN <<>>
       ELSE LET q == FirstFrom(fenced \cup indented, p, 0)
                to == IF q \in fenced THEN FirstFrom(fences, q + 3, 0) + 3
                      ELSE IndentedEnd(t, newlines, lines,
                                       IF q \in lines THEN q ELSE q + 1)
            IN <<[from |-> q, to |-> to]>>
               \o CodeRangesFrom(t, newlines, fences, lines, to)

\* MarkdownChunker._find_code_block_ranges
FindCodeBlockRanges(t) ==
    CodeRangesFrom(t, Newlines(t),
                   {i \in 1..Len(t) : t[i] = Backquote /\ HasAt(t, i, Fence)},
                   IndentedLines(t), 1)

\* MarkdownChunker._has_code_blocks: CODE_BLOCK_PATTERN.search(text)
HasCodeBlocks(t) == FindCodeBlockRanges(t) # <<>>

\* re.split(r'\n\n+', text) of a text that neither starts nor ends with a
\* newline: the paragraphs as [from, to], both inclusive
ParagraphSpans(t) ==
    LET newlines == Newlines(t)
        breaks == {i \in newlines : (i - 1) \in newlines \/ (i + 1) \in newlines}
        starts == Ascending({1} \cup {i + 1 : i \in {b \in breaks : (b + 1) \notin breaks}})
        ends == Ascending({Len(t)} \cup {i - 1 : i \in {b \in breaks : (b - 1) \notin breaks}})
    IN <<>> \o [k \in 1..Len(starts) |-> [from |-> starts[k], to |-> ends[k]]]

\* the loop as it would be without the 2 characters of the separator
RECURSIVE PackWithoutSeparators(_, _, _, _, _, _)
PackWithoutSeparators(sizes, max_size, i, chunks, current_chunk, current_size) ==
    IF i > Len(sizes)
    THEN IF current_chunk # <<>> THEN Append(chunks, current_chunk) ELSE chunks
    ELSE IF current_chunk # <<>> /\ current_size + sizes[i] > max_size
    THEN PackWithoutSeparators(sizes, max_size, i + 1, Append(chunks, current_chunk),
                               <<i>>, sizes[i])
    ELSE PackWithoutSeparators(sizes, max_size, i + 1, chunks,
                               Append(current_chunk, i), current_size + sizes[i])

\* the loop as it would be without "Add remaining paragraphs"
RECURSIVE PackDroppingRest(_, _, _, _, _, _)
PackDroppingRest(sizes, max_size, i, chunks, current_chunk, current_size) ==
    IF i > Len(sizes) THEN chunks
    ELSE IF current_chunk # <<>> /\ current_size + sizes[i] + 2 > max_size
    THEN PackDroppingRest(sizes, max_size, i + 1, Append(chunks, current_chunk),
                          <<i>>, sizes[i] + 2)
    ELSE PackDroppingRest(sizes, max_size, i + 1, chunks,
                          Append(current_chunk, i), current_size + sizes[i] + 2)

\* the loop of _split_on_paragraphs over the paragraph sizes from the i-th
\* on: the chunks as lists of paragraph numbers
RECURSIVE PackParagraphs(_, _, _, _, _, _)
PackParagraphs(sizes, max_size, i, chunks, current_chunk, current_size) ==
    IF i > Len(sizes)
    THEN IF current_chunk # <<>> THEN Append(chunks, current_chunk) ELSE chunks
    ELSE IF current_chunk # <<>> /\ current_size + sizes[i] + 2 > max_size
    THEN PackParagraphs(sizes, max_size, i + 1, Append(chunks, current_chunk),
                        <<i>>, sizes[i] + 2)
    ELSE PackParagraphs(sizes, max_size, i + 1, chunks,
                        Append(current_chunk, i), current_size + sizes[i] + 2)

\* the chunks of _split_on_paragraphs for a text longer than max_size, as
\* lists of paragraph numbers
ParagraphGroups(t, max_size) ==
    LET spans == ParagraphSpans(t)
    IN PackParagraphs([k \in 1..Len(spans) |-> spans[k].to - spans[k].from + 1],
                      max_size, 1, <<>>, <<>>, 0)

\* MarkdownChunker._split_on_paragraphs
SplitOnParagraphs(t, max_size) ==
    IF Len(t) <= max_size THEN <<t>>
    ELSE LET spans == ParagraphSpans(t)
             groups == ParagraphGroups(t, max_size)
         IN [g \in 1..Len(groups) |->
                Join(<<"\n", "\n">>,
                     [k \in 1..Len(groups[g]) |->
                         SubSeq(t, spans[groups[g][k]].from, spans[groups[g][k]].to)])]

\* MarkdownChunker._extract_hierarchy for the k-th heading: the titles of
\* the headings before it that have fewer hashes, then its own title
ExtractHierarchy(headings, k) ==
    LET before == SelectSeq(SubSeq(headings, 1, k - 1),
                            LAMBDA prev : prev.level < headings[k].level)
    IN [i \in 1..Len(before) |-> before[i].title] \o <<headings[k].title>>

\* working_content of chunk: the source comments removed, then strip()
WorkingContent(content) == Strip(RemoveSourceComments(content))

\* the sections chunk finds in working_content
Sections(working_content) ==
    LET headings == HeadingMatches(working_content, 2, 3)
        intro_content ==
            IF headings = <<>> THEN <<>>
            ELSE Strip(SubSeq(working_content, 1, headings[1].from - 1))
        intro == IF intro_content = <<>> THEN <<>>
                 ELSE <<[header |-> None, title |-> None, content |-> intro_content,
                         hierarchy |-> <<>>]>>
        headed ==
            [k \in 1..Len(headings) |->
                LET section_end == IF k < Len(headings) THEN headings[k + 1].from
                                   ELSE Len(working_content) + 1
                IN [header |-> SubSeq(working_content, headings[k].from,
                                      headings[k].to - 1),
                    title |-> headings[k].title,
                    content |-> Strip(SubSeq(working_content, headings[k].from,
                                             section_end - 1)),
                    hierarchy |-> ExtractHierarchy(headings, k)]]
    IN IF intro \o headed = <<>>
       THEN <<[header |-> None, title |-> None, content |-> working_content,
               hierarchy |-> <<>>]>>
       ELSE intro \o headed

\* str(n) of a natural number
DecimalDigits == <<"0", "1", "2", "3", "4", "5", "6", "7", "8", "9">>

RECURSIVE IntStr(_)
IntStr(n) ==
    IF n < 10 THEN <<DecimalDigits[n + 1]>>
    ELSE IntStr(n \div 10) \o <<DecimalDigits[(n % 10) + 1]>>

\* the section title of part i of n
PartTitle(section_title, i, n) ==
    IF section_title # None /\ section_title # <<>>
    THEN section_title \o <<" ", "(", "p", "a", "r", "t", " ">> \o IntStr(i)
         \o <<"/">> \o IntStr(n) \o <<")">>
    ELSE <<"P", "a", "r", "t", " ">> \o IntStr(i) \o <<"/">> \o IntStr(n)

\* the chunks chunk makes of one section
SectionChunks(section, source_url, page_title) ==
    LET sub_chunks == IF Len(section.content) <= TARGET_MAX_CHARS
                      THEN <<section.content>>
                      ELSE SplitOnParagraphs(section.content, TARGET_MAX_CHARS)
    IN [i \in 1..Len(sub_chunks) |->
           [content |-> sub_chunks[i],
            metadata |->
                [source_url |-> source_url,
                 page_title |-> page_title,
                 section |-> IF Len(sub_chunks) > 1
                             THEN PartTitle(section.title, i, Len(sub_chunks))
                             ELSE section.title,
                 hierarchy |-> section.hierarchy,
                 has_code |-> HasCodeBlocks(sub_chunks[i])]]]

RECURSIVE Concat(_)
Concat(lists) == IF lists = <<>> THEN <<>> ELSE Head(lists) \o Concat(Tail(lists))

\* MarkdownChunker(filepath).chunk() for a file with this content
ChunkCall(content) ==
    LET source_url == ExtractSourceUrl(content)
        page_title == ExtractPageTitle(content)
        sections == Sections(WorkingContent(content))
    IN Concat([k \in 1..Len(sections) |->
                  SectionChunks(sections[k], source_url, page_title)])

\* the pieces the files are made of
Xs(n) == <<>> \o [i \in 1..n |-> "x"]
BlankLine == <<"\n", "\n">>
SourceComment ==
    CommentOpen \o <<" ">> \o CommentSource \o <<" ", "u", " ">> \o CommentClose \o <<"\n">>

\* a source comment with only a blank where the url stands
BlankSourceComment ==
    CommentOpen \o <<" ">> \o CommentSource \o <<" ">> \o CommentClose \o <<"\n">>

Pieces ==
    << <<"f", "o", "o">>,
       <<"#", "#", " ", "H">>,
       <<"#", "#", "#", " ", "T">>,
       Xs(TARGET_MAX_CHARS \div 2),
       Xs((TARGET_MAX_CHARS \div 2) - 1),
       Xs(TARGET_MAX_CHARS + 1),
       Fence \o <<"\n">> \o Xs(3 * (TARGET_MAX_CHARS \div 10)) \o BlankLine
           \o Xs(3 * (TARGET_MAX_CHARS \div 10)) \o <<"\n">> \o Fence,
       Fence \o <<"\n", "a">> \o BlankLine \o <<"b", "\n">> \o Fence,
       <<"#", "#", " ", "G">> \o BlankLine \o <<"#", "#", " ", "H">> >>

\* the files: an optional source comment, with or without a url, then
\* pieces with a blank line between them; a blank file; a file whose only
\* line is a hash and two blanks
Files ==
    {prefix \o Join(BlankLine, [i \in 1..Len(pick) |-> Pieces[pick[i]]]) :
        prefix \in {<<>>, SourceComment, BlankSourceComment},
        pick \in UNION {[1..n -> 1..Len(Pieces)] : n \in 0..MaxPieces}}
    \cup {<<" ", "\n">>, <<"#", " ", " ">>}

\* chunk_markdown(filepath) for a file with this content, start to return
ChunkMarkdown(content) ==
    /\ search_pc = "idle"
    /\ search_in' = [entry |-> "chunk_markdown", content |-> content, outcome |-> "ok"]
    /\ results' = ChunkCall(content)
    /\ search_pc' = "done"
    /\ UNCHANGED <<db, last, semantic_results, keyword_results, sem_seen, kw_seen,
                   RerankVars>>

NextChunk ==
    \/ \E content \in Files : ChunkMarkdown(content)
    \/ SearchReturn

SpecChunk == Init /\ [][NextChunk]_vars

----------------------------------------------------------------------------
(* Searches over stores of many shapes                                     *)

\* the digits of i in base 2
RECURSIVE Bits(_)
Bits(i) ==
    IF i < 2 THEN <<IF i = 1 THEN "1" ELSE "0">>
    ELSE Bits(i \div 2) \o <<IF i % 2 = 1 THEN "1" ELSE "0">>

\* the i-th chunk of a crowd: one page of n chunks "x1", "x10", "x11", ...
\* whose vectors all lie at 0
CrowdChunk(i) == MkChunk(<<"x">> \o Bits(i), Url1, None, <<>>)

\* the crowd is indexed page by page: one add per page of at most 25 chunks
PageChunks(from, upto) == [i \in 1..(upto - from + 1) |-> CrowdChunk(from + i - 1)]
PageEmbeddings(from, upto) == [i \in 1..(upto - from + 1) |-> Vec(0)]

RECURSIVE AddCrowd(_, _, _, _)
AddCrowd(d, coll, from, n) ==
    IF from > n THEN d
    ELSE LET upto == Min2(n, from + 24)
         IN AddCrowd(AddCall(d, coll, PageChunks(from, upto),
                             PageEmbeddings(from, upto)).db,
                     coll, upto + 1, n)

\* batches of the pairs that the store takes
StoreBatches == {b \in Batches : \A i \in 1..Len(b) : b[i] \in {1, 2, 4}}

\* a store after add(first) on collection A and add(second) on collection B
SmallStore(first, second) ==
    AddCall(AddCall(EmptyDb, "A", ChunksOf(first), EmbeddingsOf(first)).db,
            "B", ChunksOf(second), EmbeddingsOf(second)).db

\* a store after add(first) on one collection and the adds of a crowd of n
\* chunks on the other
CrowdedStore(coll, first, crowd_coll, n) ==
    AddCrowd(AddCall(EmptyDb, coll, ChunksOf(first), EmbeddingsOf(first)).db,
             crowd_coll, 1, n)

CrowdSizes == {MIN_POOL_SIZE - 1, MIN_POOL_SIZE, MaxCrowd}

SearchStores ==
    {SmallStore(first, second) : first \in StoreBatches, second \in StoreBatches}
    \cup {CrowdedStore("A", first, "B", n) :
             first \in {<<2, 4>>}, n \in CrowdSizes}

InitSearch ==
    /\ db \in SearchStores
    /\ last = NoCall
    /\ SearchIdle
    /\ RerankIdle

NextSearch ==
    \/ \E coll \in Collections, x \in {0, 2}, query_text \in QueryTexts,
          top_k \in TopKs, semantic_only \in BOOLEAN :
          SearchBegin(coll, x, query_text, top_k, semantic_only)
    \/ SearchFinish
    \/ \E entry \in LegacyEntries, c \in LegacyCollections,
          query \in QueryTexts, top_k \in 1..MaxTopK, x \in {0, 2},
          reply \in QueryReplies :
          \E list_up \in IF entry = "search" THEN BOOLEAN ELSE {TRUE} :
             LegacyBegin(entry, c, query, top_k, x, list_up, reply)
    \/ \E c \in LegacyCollections, reply \in {"ok", "no answer"} :
          LegacyFinish(c, reply)
    \/ SearchReturn

SpecSearch == InitSearch /\ [][NextSearch]_vars

----------------------------------------------------------------------------
(* index.py: index_documents, over the embedder and the store              *)

\* batch_size of the embedding loop
batch_size == 20

\* one pass of the loop over range(0, len(all_chunks), batch_size), at
\* offset i: embedder.embed of the contents of the batch, with the reply of
\* the service
EmbedBatch(all_chunks, i, reply) ==
    LET batch_chunks == SubSeq(all_chunks, i + 1, Min2(i + batch_size, Len(all_chunks)))
        batch_texts == [j \in 1..Len(batch_chunks) |-> batch_chunks[j].content]
    IN Embed(batch_texts, reply)

\* the markdown files of the runs
FooFile == SourceComment \o <<"f", "o", "o">>
TwoSections ==
    <<"#", "#", " ", "H">> \o BlankLine \o <<"f", "o", "o">> \o BlankLine
        \o <<"#", "#", "#", " ", "T">> \o BlankLine \o <<"b", "a">>
ManySections ==
    Join(BlankLine, [i \in 1..(batch_size + 1) |->
                        IF i % 2 = 1 THEN <<"#", "#", " ", "H">>
                        ELSE <<"#", "#", " ", "T", "T">>])
Contents == <<FooFile, TwoSections, ManySections>>

\* chunk_markdown of each of these files, computed once
Chunked == <<>> \o [i \in 1..Len(Contents) |-> ChunkCall(Contents[i])]

\* the loop over markdown_files: a file that chunk_markdown cannot read is
\* skipped with a warning
AllChunks(markdown_files) ==
    Concat([i \in 1..Len(markdown_files) |->
               IF markdown_files[i].readable
               THEN Chunked[CHOOSE c \in 1..Len(Contents) :
                               Contents[c] = markdown_files[i].content]
               ELSE <<>>])

\* the arguments of store.add, once the run has come to it
NoAdd == [reached |-> FALSE, chunks |-> <<>>, embeddings |-> <<>>]

\* "Processing files...": exit 1 when no file gave a chunk, else on to the
\* embedding loop
ProcessFiles(all_chunks) ==
    IF all_chunks = <<>>
    THEN [exit |-> 1, at |-> "chunks", pc |-> "done", rowids |-> {}]
    ELSE [exit |-> 0, at |-> "embed", pc |-> "embed", rowids |-> {}]

\* index_documents(source, clear) over the markdown files of the output
\* directory, on the committed database d, up to its first write or its
\* first request to the embedding service: exit 1 without files, exit 1
\* when Embedder() raises; with clear, the SELECT of store.clear(), which
\* runs in autocommit mode: with rowids the run stands before the DELETEs
\* of the clear, without it the clear is over; then the chunks of the files.
\* at is the step the run has come to, rowids what the SELECT returned.
IndexDocumentsBegin(d, source, clear, markdown_files, list_up, all_chunks) ==
    IF markdown_files = <<>>
    THEN [exit |-> 1, at |-> "files", pc |-> "done", rowids |-> {}]
    ELSE IF NewEmbedder(list_up) # "ok"
    THEN [exit |-> 1, at |-> "init", pc |-> "done", rowids |-> {}]
    ELSE IF clear /\ SelectedRowids(d, "clear", source, None) # {}
    THEN [exit |-> 0, at |-> "clear", pc |-> "clear",
          rowids |-> SelectedRowids(d, "clear", source, None)]
    ELSE ProcessFiles(all_chunks)

\* "Generating embeddings...": the run after the call of embedder.embed for
\* its next batch: exit 1 when it raised, else on to the next batch, or to
\* the store after the last one
GenerateEmbeddings(run, reply, call) ==
    IF call.outcome # "ok"
    THEN [run EXCEPT !.replies = Append(@, reply), !.exit = 1, !.pc = "done"]
    ELSE [run EXCEPT !.replies = Append(@, reply),
                     !.all_embeddings = @ \o call.embeddings,
                     !.at = IF (Len(run.replies) + 1) * batch_size >= Len(run.all_chunks)
                            THEN "add" ELSE "embed",
                     !.pc = IF (Len(run.replies) + 1) * batch_size >= Len(run.all_chunks)
                            THEN "add" ELSE "embed"]

\* "Storing in SQLite...": the run once store.add(all_chunks,
\* all_embeddings) has returned or raised
StoreInSqlite(run, call) ==
    [run EXCEPT !.exit = IF call.outcome = "ok" THEN 0 ELSE 1,
                !.at = IF call.outcome = "ok" THEN "done" ELSE "add",
                !.add = [reached |-> TRUE, chunks |-> run.all_chunks,
                         embeddings |-> run.all_embeddings],
                !.rowids = {},
                !.pc = "done"]

\* an output directory: at most MaxFiles of these files, in glob order, or the
\* file of many sections alone
DirectoryFiles ==
    << [readable |-> FALSE, content |-> FooFile],
       [readable |-> TRUE, content |-> FooFile],
       [readable |-> TRUE, content |-> TwoSections] >>

Directories ==
    {[i \in 1..Len(pick) |-> DirectoryFiles[pick[i]]] :
        pick \in {p \in UNION {[1..n -> 1..Len(DirectoryFiles)] : n \in 0..MaxFiles} :
                     \A a, b \in 1..Len(p) : a < b => p[a] < p[b]}}
    \cup {<<[readable |-> TRUE, content |-> ManySections]>>}

\* the run that is over indexed this directory into this collection and
\* exited with 0
IndexedBefore(source, markdown_files) ==
    /\ last.op = "index_documents"
    /\ last.coll = source
    /\ last.markdown_files = markdown_files
    /\ last.exit = 0

\* a run of index_documents starts when the one before it is over, and goes
\* as far as its first write or its first request to the embedding service.
\* The files do not change during a run: their chunks are computed here and
\* used when the run comes to them.  What the record keeps of the past:
\* before is the database the run started on; fresh, that the run was asked
\* to clear or found its collection empty; alone, that no other connection
\* has changed the database since the run started; again, IndexedBefore of
\* the run before this one, and then previous_replies, previous_fresh and
\* previous_alone are the replies, fresh and alone of that run.  While the
\* add of a second process stands between its SELECT and its first write
\* (search_pc = "write"), at most MaxOverlap runs start, each into the
\* collection and over the chunks of that add.
IndexBegin(source, clear, markdown_files, list_up) ==
    /\ last.pc = "done"
    /\ \E all_chunks \in {AllChunks(markdown_files)} :
       \E begun \in {IndexDocumentsBegin(db, source, clear, markdown_files, list_up,
                                         all_chunks)} :
       \E again \in {IndexedBefore(source, markdown_files)} :
          /\ last' = [op |-> "index_documents", pc |-> begun.pc, coll |-> source,
                      clear |-> clear, markdown_files |-> markdown_files,
                      list_up |-> list_up,
                      all_chunks |-> IF begun.at \in {"files", "init"} THEN <<>>
                                     ELSE all_chunks,
                      rowids |-> begun.rowids,
                      replies |-> <<>>, all_embeddings |-> <<>>,
                      before |-> db, exit |-> begun.exit, at |-> begun.at,
                      add |-> NoAdd,
                      fresh |-> clear \/ RowidsOfCollection(db, source) = {},
                      alone |-> TRUE,
                      again |-> again,
                      previous_replies |-> IF again THEN last.replies ELSE <<>>,
                      previous_fresh |-> again /\ last.fresh,
                      previous_alone |-> again /\ last.alone]
          /\ search_pc = "write" =>
                 /\ search_in.runs < MaxOverlap
                 /\ search_in.coll = source
                 /\ search_in.chunks = all_chunks
    /\ search_in' = IF search_pc = "write"
                    THEN [search_in EXCEPT !.runs = search_in.runs + 1]
                    ELSE search_in
    /\ UNCHANGED <<db, search_pc, semantic_results, keyword_results, sem_seen,
                   kw_seen, results, RerankVars>>

\* the rest of store.clear() of the run: the first DELETE opens the
\* transaction on the database as committed now; documents_vec loses the
\* rowids selected before, documents the rows of the collection now; commit.
\* Then the files are chunked.
IndexClear ==
    /\ last.op = "index_documents"
    /\ last.pc = "clear"
    /\ db' = DeleteRows(db, last.rowids,
                        SelectedRowids(db, "clear", last.coll, None))
    /\ \E files \in {ProcessFiles(last.all_chunks)} :
          last' = [last EXCEPT !.exit = files.exit, !.at = files.at,
                               !.pc = files.pc, !.rowids = files.rowids]
    /\ UNCHANGED <<SearchVars, RerankVars>>

\* the service replies to the next batch of the run
IndexEmbed(reply) ==
    /\ last.op = "index_documents"
    /\ last.pc = "embed"
    /\ \E call \in {EmbedBatch(last.all_chunks, Len(last.replies) * batch_size, reply)} :
          last' = GenerateEmbeddings(last, reply, call)
    /\ UNCHANGED <<db, SearchVars, RerankVars>>

\* store.add of the run up to its first write: the two checks of the lists,
\* then the SELECT of the first chunk, in autocommit mode, on the database
\* as committed now
IndexSelect ==
    /\ last.op = "index_documents"
    /\ last.pc = "add"
    /\ last' = IF last.all_chunks = <<>>
                  \/ Len(last.all_chunks) # Len(last.all_embeddings)
               THEN StoreInSqlite(last, AddCall(db, last.coll, last.all_chunks,
                                                last.all_embeddings))
               ELSE [last EXCEPT !.pc = "write",
                                 !.rowids = AddSelect(db, last.all_chunks)]
    /\ UNCHANGED <<db, SearchVars, RerankVars>>

\* the rest of store.add of the run, from its first write to the commit or
\* the rollback, on the database as committed now, then the exit of the run
IndexStore ==
    /\ last.op = "index_documents"
    /\ last.pc = "write"
    /\ \E call \in {AddWrite(db, last.coll, last.all_chunks, last.all_embeddings,
                             last.rowids)} :
          /\ \A r \in DOMAIN call.db.documents : r <= MaxIndexRowid
          /\ db' = call.db
          /\ last' = StoreInSqlite(last, call)
    /\ UNCHANGED <<SearchVars, RerankVars>>

----------------------------------------------------------------------------
(* core/fetcher.py: Fetcher                                                *)

\* what session.get followed by raise_for_status comes to: a response with
\* a body, or a requests.RequestException
Responses ==
    {[ok |-> TRUE, text |-> text, error |-> "none"] : text \in {<<>>, <<"o", "k">>}}
    \cup {[ok |-> FALSE, text |-> <<>>, error |-> error] :
             error \in {"ConnectionError", "HTTPError"}}

\* fetch_html(url) of a Fetcher constructed with max_retries, up to its
\* first GET: _rate_limit, then range(self.max_retries); an empty range
\* falls through to return ""
FetchHtml(max_retries) ==
    /\ search_pc = "idle"
    /\ search_in' = [entry |-> "Fetcher.fetch_html", max_retries |-> max_retries,
                     attempt |-> 0, gets |-> <<>>, outcome |-> "ok"]
    /\ IF max_retries <= 0
       THEN /\ search_pc' = "done"
            /\ results' = [outcome |-> "return", text |-> <<>>, error |-> "none"]
       ELSE /\ search_pc' = "get"
            /\ results' = <<>>
    /\ UNCHANGED <<db, last, semantic_results, keyword_results, sem_seen, kw_seen,
                   RerankVars>>

\* one pass of the loop: the GET, then return response.text, or raise on
\* the last attempt, or sleep and go round again
Get(response) ==
    /\ search_pc = "get"
    /\ IF response.ok
       THEN /\ search_pc' = "done"
            /\ search_in' = [search_in EXCEPT !.gets = Append(@, response)]
            /\ results' = [outcome |-> "return", text |-> response.text,
                           error |-> "none"]
       ELSE IF search_in.attempt = search_in.max_retries - 1
       THEN /\ search_pc' = "done"
            /\ search_in' = [search_in EXCEPT !.gets = Append(@, response),
                                              !.outcome = response.error]
            /\ results' = [outcome |-> "raise", text |-> <<>>,
                           error |-> response.error]
       ELSE /\ search_pc' = "get"
            /\ search_in' = [search_in EXCEPT !.gets = Append(@, response),
                                              !.attempt = @ + 1]
            /\ results' = <<>>
    /\ UNCHANGED <<db, last, semantic_results, keyword_results, sem_seen, kw_seen,
                   RerankVars>>

NextFetch ==
    \/ \E max_retries \in 0..MaxRetries : FetchHtml(max_retries)
    \/ \E response \in Responses : Get(response)
    \/ SearchReturn

SpecFetch == Init /\ [][NextFetch]_vars

----------------------------------------------------------------------------
(* Claims on the store calls                                               *)

DocRowids == DOMAIN db.documents
VecRowids == DOMAIN db.documents_vec
FtsRowids == {e.rowid : e \in db.documents_fts}

\* C1: after any sequence of add, delete_by_source and clear calls, on stores
\* of any collections over one database, every documents row has exactly one
\* lexical entry (the one of its content and section) and exactly one vector
\* entry under its rowid, and no lexical or vector entry is without a row.
C1_TripartiteConsistency ==
    /\ VecRowids = DocRowids
    /\ FtsRowids = DocRowids
    /\ \A r \in DocRowids :
          /\ {e \in db.documents_fts : e.rowid = r} = {FtsEntry(r, db.documents[r])}
          /\ db.documents_vec[r] = db.documents[r].embedding

\* a delete has removed rows of one collection, next to rows that stay
C1_Witness ==
    /\ last.op \in {"clear", "delete_by_source"}
    /\ last.changed
    /\ DocRowids # {}
    /\ C1_TripartiteConsistency

\* C2: an add that fails part-way through its batch raises and leaves
\* documents, lexical index and vector index exactly as they were before the
\* call, also for the rows of the batch written before the failing one.
C2_FailedAddWritesNothing ==
    [][(last'.op = "add" /\ last'.outcome # "ok") => db' = db]_vars

\* an add has failed at the second chunk of its batch or later
C2_Witness ==
    /\ last.op = "add"
    /\ last.outcome = "OperationalError"
    /\ last.at > 1

\* C3: in every store state and for every batch, add(cs, es) followed by
\* add(cs, es) leaves the same count and the same rows, lexical entries and
\* vector entries as the single add(cs, es): after every add, the same add
\* once more changes nothing and ends as the first did.
C3_UpsertIdempotent ==
    [][AddFinish =>
          LET twice == AddCall(db', last.coll, last.chunks, last.embeddings)
          IN /\ twice.db = db'
             /\ twice.outcome = last'.outcome
             /\ Count(twice.db, last.coll) = Count(db', last.coll)]_vars

\* an add went through that met only ids already stored and changed nothing:
\* the second of two equal upserts
C3_Witness ==
    /\ last.op = "add"
    /\ last.outcome = "ok"
    /\ last.repeat
    /\ ~last.changed
    /\ Count(db, last.coll) > 0

\* the (source_url, content) pairs stored under a collection
StoredPairs(d, coll) ==
    {<<d.documents[r].source_url, d.documents[r].content>> :
        r \in RowidsOfCollection(d, coll)}

\* C4: ids are pairwise distinct, and count() of a collection is the number
\* of distinct (source_url, content) pairs stored under it: two chunks with
\* the same source_url and content never make two rows.
C4_OneRowPerSourceAndContent ==
    /\ \A r1, r2 \in DocRowids :
          db.documents[r1].id = db.documents[r2].id => r1 = r2
    /\ \A r \in DocRowids :
          db.documents[r].id = GenerateId(db.documents[r].content,
                                          db.documents[r].source_url)
    /\ \A coll \in Collections :
          Count(db, coll) = Cardinality(StoredPairs(db, coll))

\* an add went through whose batch met an id a second time
C4_Witness ==
    /\ last.op = "add"
    /\ last.outcome = "ok"
    /\ last.repeat
    /\ DocRowids # {}

\* C5: no add, clear or delete_by_source through a store bound to one
\* collection changes collection_count of another collection.
C5_CollectionIsolation ==
    [][\A other \in Collections :
          (last'.op # "none" /\ other # last'.coll)
              => CollectionCount(db', other) = CollectionCount(db, other)]_vars

\* a call changed its own collection while the other one holds documents
C5_Witness ==
    /\ last.op # "none"
    /\ last.changed
    /\ \E other \in Collections : other # last.coll /\ CollectionCount(db, other) > 0

----------------------------------------------------------------------------
(* Claims on search                                                        *)

StoreSearchDone == search_pc = "done" /\ search_in.entry = "SQLiteStore.search"

\* the distance of a stored row from the query of the search in flight
QueryDistance(rowid) ==
    Distance(db.documents_vec[rowid], SerializeEmbedding(Vec(search_in.x)))

\* C7: for a store bound to collection A the semantic ranking holds the
\* min(P, count(A)) documents of A nearest to the query, in ascending order
\* of distance, with P = clamp(top_k * 10, 100, 200), whatever other
\* collections hold.
C7_SemanticRankingIsExactKnnOfCollection ==
    StoreSearchDone =>
        LET own  == RowidsOfCollection(db, search_in.coll)
            got  == {semantic_results[i].rowid : i \in 1..Len(semantic_results)}
            pool == Max2(100, Min2(search_in.top_k * 10, 200))
        IN /\ Len(semantic_results) = Min2(pool, Cardinality(own))
           /\ got \subseteq own
           /\ \A i, j \in 1..Len(semantic_results) :
                 i < j => QueryDistance(semantic_results[i].rowid)
                          <= QueryDistance(semantic_results[j].rowid)
           /\ \A r \in own \ got : \A g \in got : QueryDistance(g) <= QueryDistance(r)

\* C8: a search with top_k = 1 returns exactly one result whenever the
\* searched collection holds a document, in the hybrid and in the
\* semantic_only mode.
C8_TopOneReturnsOneResult ==
    (StoreSearchDone /\ search_in.top_k = 1 /\ Count(db, search_in.coll) > 0)
        => Len(results) = 1

\* C9: when the lexical ranking is empty (the FTS query is empty, or it
\* matches no document) the hybrid search returns the list semantic_only
\* returns: the first top_k rows of the semantic ranking in its order, each
\* with score W_SEM / (RRF_K + semantic_rank) and no keyword_rank.
C9_EmptyLexicalRankingIsSemanticOnly ==
    (StoreSearchDone /\ ~search_in.semantic_only /\ keyword_results = <<>>) =>
        /\ results = StoreSearch(db, search_in.coll, Vec(search_in.x),
                                 search_in.query_text, search_in.top_k, TRUE, <<>>)
        /\ Len(results) = Min2(search_in.top_k, Len(semantic_results))
        /\ \A i \in 1..Len(results) :
              /\ results[i].content = semantic_results[i].content
              /\ results[i].score = FloatDiv(SEMANTIC_WEIGHT, RRF_K + i)
              /\ results[i].semantic_rank = <<i>>
              /\ results[i].keyword_rank = <<>>

\* a hybrid search whose FTS query matched nothing returned two results
C9_Witness ==
    /\ StoreSearchDone
    /\ ~search_in.semantic_only
    /\ ParseFtsQuery(search_in.query_text) # <<>>
    /\ keyword_results = <<>>
    /\ Len(results) >= 2

BlankQuery == Strip(search_in.query_text) = <<>>

\* C10 as stated: a search with an empty or whitespace-only query returns
\* the empty list and raises no error, at every entry point.
C10_EmptyQueryReturnsNothing ==
    (search_pc = "done" /\ BlankQuery) =>
        results = <<>> /\ search_in.outcome = "ok"

\* C10 as the code has it: with an empty or whitespace-only query,
\* HybridSearch.search returns the empty list and raises nothing; the search
\* convenience function does the same when it can build its searcher and
\* raises ConnectionError when Ollama does not answer; SQLiteStore.search
\* raises nothing and returns the first top_k rows of the semantic ranking,
\* each without keyword_rank: the empty list only when that ranking is empty.
C10_EmptyQueryByEntryPoint ==
    (search_pc = "done" /\ BlankQuery) =>
        /\ search_in.entry = "HybridSearch.search" =>
              results = <<>> /\ search_in.outcome = "ok"
        /\ search_in.entry = "search" =>
              /\ results = <<>>
              /\ search_in.outcome = IF search_in.list_up THEN "ok"
                                     ELSE "ConnectionError"
        /\ search_in.entry = "SQLiteStore.search" =>
              /\ search_in.outcome = "ok"
              /\ Len(results) = Min2(search_in.top_k, Len(semantic_results))
              /\ \A i \in 1..Len(results) :
                    /\ results[i].content = semantic_results[i].content
                    /\ results[i].semantic_rank = <<i>>
                    /\ results[i].keyword_rank = <<>>

\* HybridSearch.search has returned from a whitespace-only query
C10_Witness ==
    /\ search_pc = "done"
    /\ search_in.entry = "HybridSearch.search"
    /\ search_in.query_text = QBlank
    /\ search_in.list_up

\* the score the ranks of result i stand for, as Python evaluates it:
\* 1.0/(60 + semantic_rank) if it has a semantic rank, plus
\* 1.2/(60 + keyword_rank) if it has a keyword rank, twice that when the
\* section of its keyword row holds a query term
ScoreOfRanks(i) ==
    LET r == results[i]
        boosted == /\ r.keyword_rank # <<>>
                   /\ \E term \in QueryTerms(search_in.query_text) :
                         IsSubstring(term,
                             Lower(OrEmpty(keyword_results[r.keyword_rank[1]].section)))
        semantic == IF r.semantic_rank # <<>>
                    THEN FloatDiv(FloatOfInt(1), 60 + r.semantic_rank[1])
                    ELSE FloatZero
        keyword == FloatMul(FloatDiv(KEYWORD_WEIGHT, 60 + r.keyword_rank[1]),
                            IF boosted THEN 2 ELSE 1)
    IN IF r.keyword_rank # <<>> THEN FloatAdd(semantic, keyword) ELSE semantic

\* 1/(60+1) + 1.2*2/(60+1) as Python evaluates it
ScoreBound ==
    FloatAdd(FloatDiv(FloatOfInt(1), 60 + 1),
             FloatDiv(FloatMul(KEYWORD_WEIGHT, 2), 60 + 1))

\* C11: every result of SQLiteStore.search has 0 < score <= 1/(60+1) +
\* 1.2*2/(60+1), the bound taken as the float of that expression; its score
\* is the weighted sum its 1-based ranks stand for.
C11_ScoreWithinRrfBounds ==
    StoreSearchDone =>
        \A i \in 1..Len(results) :
            /\ FloatLess(FloatZero, results[i].score)
            /\ FloatLeq(results[i].score, ScoreBound)
            /\ results[i].score = ScoreOfRanks(i)
            /\ results[i].semantic_rank # <<>> => results[i].semantic_rank[1] >= 1
            /\ results[i].keyword_rank # <<>> => results[i].keyword_rank[1] >= 1
            /\ results[i].semantic_rank # <<>> \/ results[i].keyword_rank # <<>>

\* a result first in both rankings with a section match: the highest score
C11_Witness ==
    /\ StoreSearchDone
    /\ results # <<>>
    /\ results[1].semantic_rank = <<1>>
    /\ results[1].keyword_rank = <<1>>
    /\ results[1].score = ScoreBound

----------------------------------------------------------------------------
(* A search next to the writers of other connections                       *)

\* the batches the writers add while a search runs
ConcBatches == {<<1>>, <<4>>, <<1, 4>>}

NextConc ==
    \/ \E coll \in Collections, batch \in ConcBatches : AddBegin(coll, batch, "none")
    \/ AddFinish
    \/ \E coll \in Collections : ClearBegin(coll)
    \/ \E coll \in Collections : DeleteBySourceBegin(coll, Url1)
    \/ DeleteFinish
    \/ \E coll \in Collections, semantic_only \in BOOLEAN :
          SearchBegin(coll, 0, QFoo, 1, semantic_only)
    \/ SearchFinish
    \/ SearchReturn

SpecConc == Init /\ [][NextConc]_vars

\* C6: a search that runs while another connection commits sees one
\* snapshot: its semantic ranking and its lexical ranking are computed over
\* the same committed database.
C6_SearchSeesOneSnapshot ==
    (StoreSearchDone /\ ~search_in.semantic_only
        /\ ParseFtsQuery(search_in.query_text) # <<>>)
        => kw_seen = sem_seen

----------------------------------------------------------------------------
(* add, clear and delete_by_source of two connections                      *)

\* a call of the second connection up to its first write: the SELECT of the
\* first chunk of an add, or the SELECT of the rowids of a clear or a
\* delete_by_source, on the database as committed now
OtherBegin(op, coll, batch, source_url) ==
    /\ search_pc = "idle"
    /\ \E rowids \in {IF op = "add" THEN AddSelect(db, ChunksOf(batch))
                      ELSE SelectedRowids(db, op, coll, source_url)} :
          /\ search_in' = [entry |-> op, coll |-> coll,
                           chunks |-> IF op = "add" THEN ChunksOf(batch) ELSE <<>>,
                           embeddings |-> IF op = "add" THEN EmbeddingsOf(batch)
                                          ELSE <<>>,
                           source_url |-> IF op = "delete_by_source"
                                          THEN source_url ELSE None,
                           rowids |-> rowids, outcome |-> "ok"]
          /\ search_pc' = IF op \in DeleteOps /\ rowids = {} THEN "done" ELSE "write"
    /\ UNCHANGED <<db, last, semantic_results, keyword_results, sem_seen, kw_seen,
                   results, RerankVars>>

\* the rest of the call of the second connection, from its first write to
\* the commit or the rollback, on the database as committed now
OtherFinish ==
    /\ search_pc = "write"
    /\ \E call \in {IF search_in.entry = "add"
                    THEN AddWrite(db, search_in.coll, search_in.chunks,
                                  search_in.embeddings, search_in.rowids)
                    ELSE [db |-> DeleteRows(db, search_in.rowids,
                                     SelectedRowids(db, search_in.entry,
                                         search_in.coll, search_in.source_url)),
                          outcome |-> "ok", at |-> 0]} :
          /\ \A r \in DOMAIN call.db.documents : r <= MaxRowid
          /\ db' = call.db
          /\ search_in' = [search_in EXCEPT !.outcome = call.outcome]
    /\ search_pc' = "done"
    /\ UNCHANGED <<last, semantic_results, keyword_results, sem_seen, kw_seen,
                   results, RerankVars>>

NextDelete ==
    \/ \E coll \in Collections, batch \in ConcBatches : AddBegin(coll, batch, "none")
    \/ AddFinish
    \/ \E coll \in Collections : ClearBegin(coll)
    \/ \E coll \in Collections : DeleteBySourceBegin(coll, Url1)
    \/ DeleteFinish
    \/ \E op \in WriteOps, coll \in Collections, batch \in ConcBatches :
          OtherBegin(op, coll, batch, Url1)
    \/ OtherFinish
    \/ SearchReturn

SpecDelete == Init /\ [][NextDelete]_vars

\* the three tables of d hold the same rowids
SameRowids(d) ==
    /\ DOMAIN d.documents_vec = DOMAIN d.documents
    /\ {e.rowid : e \in d.documents_fts} = DOMAIN d.documents

\* C26: when an add commits on another connection between the statements
\* of a clear() or a delete_by_source(), the call still removes from
\* documents_vec the rowids of the rows it removes from documents, and the
\* three tables hold the same rowids when it has finished.
C26_InterleavedDeleteKeepsConsistency ==
    [][(OtherFinish /\ search_in.entry \in DeleteOps /\ SameRowids(db))
          => SameRowids(db')]_vars

----------------------------------------------------------------------------
(* index_documents next to the store.add of a second process               *)

\* A second process runs index_documents over the same directory into the
\* same collection, and has come to its store.add(all_chunks,
\* all_embeddings), with the chunks of the files and the embeddings the
\* service gives for them.  This is the call through its own connection up
\* to its first write: the SELECT of the first chunk, in autocommit mode, on
\* the database as committed now.  It may come at any moment once a run has
\* its chunks, while that run is under way or after it, and the call may
\* still stand here when the next run starts (IndexBegin).  The second
\* process makes this one call and exits.
IndexOtherSelect ==
    /\ search_pc = "idle"
    /\ last.op = "index_documents"
    /\ last.all_chunks # <<>>
    /\ search_in' = [entry |-> "add", coll |-> last.coll,
                     chunks |-> last.all_chunks,
                     embeddings |-> ResponseEmbeddings(
                                       [i \in 1..Len(last.all_chunks) |->
                                           last.all_chunks[i].content], "ok"),
                     source_url |-> None,
                     rowids |-> AddSelect(db, last.all_chunks),
                     runs |-> 0,
                     outcome |-> "ok"]
    /\ search_pc' = "write"
    /\ UNCHANGED <<db, last, semantic_results, keyword_results, sem_seen, kw_seen,
                   results, RerankVars>>

\* the rest of the add of the second process, from its first write to the
\* commit or the rollback, on the database as committed now, with the rowid
\* its SELECT found: the run's clear or add may have committed in between.
\* last.alone records that the database changed.
IndexOtherWrite ==
    /\ search_pc = "write"
    /\ \E call \in {AddWrite(db, search_in.coll, search_in.chunks,
                             search_in.embeddings, search_in.rowids)} :
          /\ \A r \in DOMAIN call.db.documents : r <= MaxIndexRowid
          /\ db' = call.db
          /\ last' = IF call.db # db THEN [last EXCEPT !.alone = FALSE] ELSE last
    /\ search_pc' = "done"
    /\ search_in' = NoSearch
    /\ UNCHANGED <<semantic_results, keyword_results, sem_seen, kw_seen, results,
                   RerankVars>>

NextIndex ==
    \/ \E source \in Collections, clear \in BOOLEAN, markdown_files \in Directories,
          list_up \in BOOLEAN :
          IndexBegin(source, clear, markdown_files, list_up)
    \/ IndexClear
    \/ \E reply \in EmbedReplies : IndexEmbed(reply)
    \/ IndexSelect
    \/ IndexStore
    \/ IndexOtherSelect
    \/ IndexOtherWrite

SpecIndex == Init /\ [][NextIndex]_vars

----------------------------------------------------------------------------
(* Claims on query expansion                                               *)

ExpandDone == search_pc = "done" /\ search_in.entry = "QueryExpander.expand"

\* C12: for every query q and every model response or failure, the first
\* element of expand(q) is q.
C12_OriginalQueryFirst ==
    ExpandDone => results # <<>> /\ results[1] = search_in.query_text

\* C13: the list expand returns holds no string twice, holds the original
\* query nowhere after the first place, and holds at most num_variations
\* variants after the original.
C13_VariantsDistinctAndBounded ==
    ExpandDone =>
        /\ \A i, j \in 1..Len(results) : results[i] = results[j] => i = j
        /\ \A i \in 2..Len(results) : results[i] # search_in.query_text
        /\ Len(results) <= search_in.num_variations + 1

\* the generation call raised, or its response is empty or has no usable line
NothingUsable ==
    \/ search_in.reply.kind # "text"
    \/ ParseResponse(search_in.reply.text) = <<>>

\* C14: when the generation call raises, or returns an empty response or one
\* with no usable line, expand does not raise and returns the one-element
\* list holding the original query.
C14_FailureFallsBackToOriginal ==
    (ExpandDone /\ NothingUsable) =>
        search_in.outcome = "ok" /\ results = <<search_in.query_text>>

----------------------------------------------------------------------------
(* Claims on reranking                                                     *)

RerankDone ==
    /\ search_pc = "done"
    /\ search_in.entry \in {"Reranker.rerank", "rerank_results"}
    /\ search_in.outcome = "ok"

\* the place in the input of the candidate an item wraps
PlaceOf(item) ==
    CHOOSE i \in 1..Len(search_in.candidates) :
        search_in.candidates[i].ref = item.original_result.ref

\* C15: rerank returns min(top_k, len(results)) items, all of them when top_k
\* is None and none for an empty input, in non-increasing order of
\* cross-encoder score; each item wraps a distinct input candidate with that
\* candidate's score, and no omitted candidate scores strictly higher than a
\* returned one.
C15_RerankReturnsTopKByScore ==
    RerankDone =>
        LET candidates == search_in.candidates
            scores == search_in.scores
            returned == {results[i].original_result.ref : i \in 1..Len(results)}
        IN /\ Len(results) = IF search_in.top_k = <<>> THEN Len(candidates)
                             ELSE Min2(search_in.top_k[1], Len(candidates))
           /\ candidates = <<>> => results = <<>>
           /\ \A i, j \in 1..Len(results) :
                 i < j => results[i].rerank_score >= results[j].rerank_score
           /\ \A i \in 1..Len(results) :
                 /\ \E p \in 1..Len(candidates) :
                       results[i].original_result = candidates[p]
                 /\ results[i].rerank_score = scores[PlaceOf(results[i])]
                 /\ results[i].original_score = results[i].original_result.score
           /\ \A i, j \in 1..Len(results) :
                 results[i].original_result.ref = results[j].original_result.ref => i = j
           /\ \A p \in 1..Len(candidates) :
                 candidates[p].ref \notin returned =>
                    \A i \in 1..Len(results) : scores[p] <= results[i].rerank_score

C15_Witness ==
    /\ RerankDone
    /\ Len(search_in.candidates) = 3
    /\ search_in.top_k = <<2>>
    /\ search_in.scores = <<0, 1, 1>>
    /\ Len(results) = 2
    /\ results[1].original_result = search_in.candidates[2]
    /\ results[2].original_result = search_in.candidates[3]

\* C16: across the rerank calls of one process, through Reranker instances
\* or through rerank_results, the cross-encoder model is constructed at most
\* once.
C16_CrossEncoderConstructedOnce == constructed <= 1

\* C17: with rerank on and the cross-encoder unavailable, the top-level
\* search does not fail, emits a warning, and returns the results of the
\* same call with rerank off.
C17_RerankUnavailableFallsBack ==
    (/\ search_pc = "done"
     /\ search_in.entry = "search_command"
     /\ ~search_in.args.no_rerank
     /\ CrossEncoder = None) =>
        /\ search_in.outcome = "ok"
        /\ search_in.warned
        /\ results = SearchCommandCall([search_in.args EXCEPT !.no_rerank = TRUE],
                                       search_in.c, search_in.x, search_in.list_up,
                                       search_in.reply, search_in.reply).results

----------------------------------------------------------------------------
(* Claims on chunking                                                      *)

ChunkDone == search_pc = "done" /\ search_in.entry = "chunk_markdown"

\* C18 as stated: every chunk chunk emits has len(content) <= 2000, unless
\* the chunk contains a fenced code block that is itself longer than 2000
\* characters.
C18_ChunkSizeUnlessLongFence ==
    ChunkDone =>
        \A i \in 1..Len(results) :
            \/ Len(results[i].content) <= TARGET_MAX_CHARS
            \/ LET ranges == FindCodeBlockRanges(results[i].content)
               IN \E r \in 1..Len(ranges) :
                     ranges[r].to - ranges[r].from > TARGET_MAX_CHARS

\* C18 amended: every chunk chunk emits has len(content) <= 2000, unless the
\* chunk is one paragraph (it holds no run of two or more newlines) that is
\* itself longer than 2000 characters.
C18_ChunkSizeUnlessLongParagraph ==
    ChunkDone =>
        \A i \in 1..Len(results) :
            \/ Len(results[i].content) <= TARGET_MAX_CHARS
            \/ Len(ParagraphSpans(results[i].content)) = 1

C18_Witness ==
    /\ ChunkDone
    /\ \E i \in 1..Len(results) :
          /\ Len(results[i].content) > TARGET_MAX_CHARS
          /\ FindCodeBlockRanges(results[i].content) = <<>>
    /\ \E i \in 1..Len(results) :
          /\ Len(ParagraphSpans(results[i].content)) > 1
          /\ results[i].metadata.section = PartTitle(None, i, Len(results))

\* the places of a section's content where paragraph splitting ends one
\* chunk and starts the next: the breaks after the last paragraph of each
\* group but the last
SplitBoundaries(content) ==
    LET spans == ParagraphSpans(content)
        groups == ParagraphGroups(content, TARGET_MAX_CHARS)
    IN IF Len(content) <= TARGET_MAX_CHARS THEN {}
       ELSE {spans[groups[g][Len(groups[g])]].to + 1 : g \in 1..(Len(groups) - 1)}

\* C19: no chunk boundary of paragraph splitting falls between the opening
\* and the closing fence of a fenced code block, also of one that holds
\* blank lines.
C19_NoSplitInsideFence ==
    ChunkDone =>
        LET sections == Sections(WorkingContent(search_in.content))
        IN \A k \in 1..Len(sections) :
              LET ranges == FindCodeBlockRanges(sections[k].content)
              IN \A b \in SplitBoundaries(sections[k].content) :
                    \A r \in 1..Len(ranges) : ~(ranges[r].from < b /\ b < ranges[r].to)

\* the lines of a text as [from, to], both inclusive
LineSpans(t) ==
    LET newlines == Newlines(t)
        starts == Ascending({1} \cup {n + 1 : n \in newlines})
        ends == Ascending({n - 1 : n \in newlines} \cup {Len(t)})
    IN <<>> \o [k \in 1..Len(starts) |-> [from |-> starts[k], to |-> ends[k]]]

\* the non-heading paragraphs of a text, in order: the longest runs of
\* consecutive lines that are not blank and belong to no heading, each line
\* without the whitespace at its ends
NonHeadingParagraphs(t) ==
    LET lines == LineSpans(t)
        headings == HeadingMatches(t, 2, 3)
        Plain(k) == /\ Strip(SubSeq(t, lines[k].from, lines[k].to)) # <<>>
                    /\ \A h \in 1..Len(headings) :
                          ~(headings[h].from <= lines[k].from
                            /\ lines[k].from < headings[h].to)
        plain == {k \in 1..Len(lines) : Plain(k)}
        firsts == Ascending({k \in plain : (k - 1) \notin plain})
        lasts == Ascending({k \in plain : (k + 1) \notin plain})
    IN IF t = <<>> THEN <<>>
       ELSE [p \in 1..Len(firsts) |->
                [k \in 1..(lasts[p] - firsts[p] + 1) |->
                    Strip(SubSeq(t, lines[firsts[p] + k - 1].from,
                                 lines[firsts[p] + k - 1].to))]]

\* C20: the chunk contents, in emission order and joined by a blank line,
\* hold every non-heading paragraph of the comment-stripped source exactly
\* once and in source order.
C20_ChunkCoverage ==
    ChunkDone =>
        NonHeadingParagraphs(Join(BlankLine,
                                  [i \in 1..Len(results) |-> results[i].content]))
            = NonHeadingParagraphs(WorkingContent(search_in.content))

C20_Witness ==
    /\ ChunkDone
    /\ Len(results) >= 2
    /\ Len(NonHeadingParagraphs(WorkingContent(search_in.content))) >= 3
    /\ \E i \in 1..Len(results) : Len(ParagraphSpans(results[i].content)) > 1
    /\ results[1].metadata.section = PartTitle(None, 1, Len(results))

\* C21: for an empty or whitespace-only file, also one that holds only the
\* source comment, chunk returns zero chunks.
C21_EmptyFileYieldsNoChunk ==
    (ChunkDone /\ WorkingContent(search_in.content) = <<>>) => results = <<>>

\* C22: for a non-empty document without a ## or ### heading, whatever its
\* length, chunk returns exactly one chunk: the whole comment-stripped
\* document, with empty hierarchy and null section.
C22_NoHeadingYieldsOneChunk ==
    (/\ ChunkDone
     /\ WorkingContent(search_in.content) # <<>>
     /\ HeadingMatches(WorkingContent(search_in.content), 2, 3) = <<>>) =>
        /\ Len(results) = 1
        /\ results[1].content = WorkingContent(search_in.content)
        /\ results[1].metadata.hierarchy = <<>>
        /\ results[1].metadata.section = None

\* the hierarchy the k-th heading should have: the title of the ## heading a
\* ### heading sits under, if any, then its own title
AncestorsThenOwn(headings, k) ==
    LET parents == {j \in 1..(k - 1) : headings[j].level < headings[k].level}
    IN (IF parents = {} THEN <<>> ELSE <<headings[Max(parents)].title>>)
       \o <<headings[k].title>>

\* C23: the hierarchy of every chunk lists only the ancestors of its
\* section, outermost first, then the section's own title: [title of the ##
\* section it sits under, if any, own title] for a ### section, [own title]
\* for a ## section.
C23_HierarchyListsAncestorsOnly ==
    ChunkDone =>
        LET working_content == WorkingContent(search_in.content)
            headings == HeadingMatches(working_content, 2, 3)
            sections == Sections(working_content)
            intro == Len(sections) - Len(headings)
            Wanted(k) == IF sections[k].header = None THEN <<>>
                         ELSE AncestorsThenOwn(headings, k - intro)
        IN [i \in 1..Len(results) |-> results[i].metadata.hierarchy]
             = Concat([k \in 1..Len(sections) |->
                          [c \in 1..Len(SectionChunks(sections[k], None, None)) |->
                              Wanted(k)]])

----------------------------------------------------------------------------
(* Claims on indexing                                                      *)

IndexDone == last.op = "index_documents" /\ last.pc = "done"

\* the run before this one indexed the same directory into the same
\* collection and exited with 0, and the embedding service has replied to
\* this run as it did to that one
IndexedAgain == last.again /\ last.replies = last.previous_replies

\* the run before this one was asked to clear or found its collection
\* empty, and no other connection has changed the database since that run
\* started
IndexedAloneIntoEmpty ==
    /\ last.previous_fresh
    /\ last.previous_alone
    /\ last.alone

\* the stored documents of a collection, in rowid order
StoredDocuments(d, coll) ==
    LET rowids == Ascending(RowidsOfCollection(d, coll))
    IN [i \in 1..Len(rowids) |->
           [id |-> d.documents[rowids[i]].id,
            content |-> d.documents[rowids[i]].content,
            metadata |-> d.documents[rowids[i]].metadata,
            embedding |-> d.documents[rowids[i]].embedding]]

\* the result lists a query may get from a store
SearchResultsOf(d, coll, x, query_text, top_k, semantic_only) ==
    IF TakesSemanticBranch(query_text, semantic_only)
    THEN {StoreSearch(d, coll, Vec(x), query_text, top_k, semantic_only, <<>>)}
    ELSE {StoreSearch(d, coll, Vec(x), query_text, top_k, semantic_only, bm25_order) :
             bm25_order \in Bm25Orders(d, coll, query_text)}

\* the second run has exited with 0 and the collection is as the first run
\* left it: the same stored documents (id, content, metadata, embedding) in
\* the same rowid order, and every query gets the same ordered results
SameAsAfterFirstRun ==
    /\ last.exit = 0
    /\ StoredDocuments(db, last.coll) = StoredDocuments(last.before, last.coll)
    /\ \A x \in {0, 2}, query_text \in {QEmpty, QFoo, QBar},
          top_k \in 1..MaxTopK, semantic_only \in BOOLEAN :
          SearchResultsOf(db, last.coll, x, query_text, top_k, semantic_only)
            = SearchResultsOf(last.before, last.coll, x, query_text, top_k,
                              semantic_only)

\* C24 as stated: when a directory has been indexed into a collection,
\* indexing it again with clear = True, with the same chunks and embeddings,
\* leaves the collection with the same stored documents in the same rowid
\* order, and every query gets the same ordered results as after the first
\* run.
C24_AnyReindexWithClearChangesNothing ==
    (IndexDone /\ IndexedAgain /\ last.clear) => SameAsAfterFirstRun

\* C24 as stated, for two runs that no other connection interferes with
C24_AnyReindexAloneWithClearChangesNothing ==
    (IndexDone /\ IndexedAgain /\ last.clear /\ last.previous_alone /\ last.alone)
        => SameAsAfterFirstRun

\* C24: when a directory has been indexed into a collection that the first
\* run was asked to clear or found empty, and no other connection changes
\* the database from the start of the first run to the end of the second,
\* indexing it again with clear = True, with the same chunks and embeddings,
\* succeeds and leaves the collection with the same stored documents (id,
\* content, metadata, embedding) in the same rowid order, and every query
\* gets the same ordered results as after the first run.
C24_ReindexWithClearChangesNothing ==
    (IndexDone /\ IndexedAgain /\ last.clear /\ IndexedAloneIntoEmpty)
        => SameAsAfterFirstRun

\* a directory of two chunks indexed a second time, with clear, into a
\* collection the first run began with empty or cleared, next to a document
\* of the other collection, while no other connection changed the database
C24_Witness ==
    /\ IndexDone /\ IndexedAgain /\ last.clear /\ IndexedAloneIntoEmpty
    /\ last.exit = 0
    /\ Count(db, last.coll) >= 2
    /\ \E coll \in Collections \ {last.coll} : Count(db, coll) >= 1

----------------------------------------------------------------------------
(* Claims on the result list of a search                                   *)

\* the rows of the searched collection a result may have come from
RowsOfResult(r) ==
    {rowid \in RowidsOfCollection(db, search_in.coll) :
        /\ db.documents[rowid].content = r.content
        /\ OrEmpty(db.documents[rowid].source_url) = r.source_url
        /\ OrEmpty(db.documents[rowid].section) = r.section
        /\ db.documents[rowid].metadata = r.metadata}

\* C25: SQLiteStore.search returns at most top_k results, in non-increasing
\* order of score, no stored document twice, every result a document of the
\* store's own collection, every result with a semantic_rank or a
\* keyword_rank.
C25_ResultListWellFormed ==
    StoreSearchDone =>
        /\ Len(results) <= search_in.top_k
        /\ \A i, j \in 1..Len(results) :
              i < j => /\ FloatLeq(results[j].score, results[i].score)
                       /\ RowsOfResult(results[i]) \cap RowsOfResult(results[j]) = {}
        /\ \A i \in 1..Len(results) :
              /\ RowsOfResult(results[i]) # {}
              /\ results[i].semantic_rank # NoRank \/ results[i].keyword_rank # NoRank

\* a hybrid search cut to one result, found by both rankings, in a
\* collection of two documents next to another collection
C25_Witness ==
    /\ StoreSearchDone
    /\ ~TakesSemanticBranch(search_in.query_text, search_in.semantic_only)
    /\ search_in.top_k = 1
    /\ Len(results) = 1
    /\ results[1].semantic_rank # NoRank /\ results[1].keyword_rank # NoRank
    /\ Count(db, search_in.coll) >= 2
    /\ \E coll \in Collections \ {search_in.coll} : Count(db, coll) >= 1

----------------------------------------------------------------------------
(* Claims on add                                                           *)

\* the batches that add is called with lists of unequal length for
TrimmedBatches == {batch \in Batches : TrimsOf(batch) # {"none"}}

\* C27: add(chunks, embeddings) raises ValueError and writes nothing for
\* every pair of lists whose lengths differ, also when one of the two lists
\* is empty.
C27_UnequalListsRaiseValueError ==
    [][\A coll \in Collections, batch \in TrimmedBatches :
          \A trim \in TrimsOf(batch) :
             (/\ AddBegin(coll, batch, trim)
              /\ Len(CallChunks(batch, trim)) # Len(CallEmbeddings(batch, trim)))
                => (last'.outcome = "ValueError" /\ db' = db)]_vars

\* a chunk is a stored document of collection coll of database d: a row of
\* the collection has its id and content, count() covers it and
\* get_by_source of its source_url returns it
StoredIn(d, coll, chunk) ==
    /\ \E r \in RowidsOfCollection(d, coll) :
          /\ d.documents[r].id = GenerateId(chunk.content, chunk.metadata.source_url)
          /\ d.documents[r].content = chunk.content
    /\ chunk.metadata.source_url # None =>
          \E doc \in GetBySource(d, coll, chunk.metadata.source_url) :
             doc.content = chunk.content

\* C28: after a successful add of a non-empty batch through a store bound to
\* collection A, list_collections() lists A, every chunk of the batch is a
\* stored document of A and count() is at least the number of distinct
\* chunks, and the rows of the other collections are as they were, also the
\* row of a chunk with the same source_url and content stored under another
\* collection.
C28_AddedChunksAreInOwnCollection ==
    [][\A coll \in Collections, batch \in StoreBatches \ {<<>>} :
          (/\ AddFinish
           /\ last.coll = coll
           /\ last.chunks = ChunksOf(batch)
           /\ last'.outcome = "ok") =>
             /\ coll \in ListCollections(db')
             /\ \A i \in 1..Len(batch) : StoredIn(db', coll, ChunksOf(batch)[i])
             /\ Count(db', coll) >= Cardinality(IdsOf(ChunksOf(batch)))
             /\ \A r \in DOMAIN db.documents :
                   db.documents[r].collection # coll =>
                      (r \in DOMAIN db'.documents
                          /\ db'.documents[r] = db.documents[r])]_vars

\* the rows of a collection, by rowid
RowsOfCollection(d, coll) ==
    [r \in RowidsOfCollection(d, coll) |-> d.documents[r]]

\* C29: a run of index_documents that exits with a non-zero status leaves
\* the collection with exactly the documents it held before the run, also
\* when clear = True was asked for (said of a run during which no other
\* connection has changed the database); and store.add is reached only
\* after every embedding batch succeeded, with one embedding per chunk in
\* chunk order.
C29_FailedRunLeavesCollectionAlone ==
    IndexDone =>
        /\ (last.exit # 0 /\ last.alone) =>
              RowsOfCollection(db, last.coll) = RowsOfCollection(last.before, last.coll)
        /\ last.add.reached =>
              /\ \A b \in DOMAIN last.replies : last.replies[b] \in {"ok", "dimension"}
              /\ Len(last.add.embeddings) = Len(last.add.chunks)
              /\ \A i \in 1..Len(last.add.chunks) :
                    last.add.embeddings[i].x = ModelVector(last.add.chunks[i].content)

----------------------------------------------------------------------------
(* Claims on fetching                                                      *)

FetchDone == search_pc = "done" /\ search_in.entry = "Fetcher.fetch_html"

\* C30: for every max_retries and every pattern of request failures,
\* fetch_html makes at most max_retries GET attempts; it returns the body of
\* the first successful attempt, which is its last attempt, and otherwise
\* raises the error of its last attempt, after max_retries failed ones; what
\* it returns always comes from a successful response.
C30_FetchReturnsFirstSuccessOrRaisesLast ==
    FetchDone =>
        LET gets == search_in.gets
        IN /\ Len(gets) <= search_in.max_retries
           /\ \A i \in 1..(Len(gets) - 1) : ~gets[i].ok
           /\ results.outcome = "return" =>
                 /\ gets # <<>>
                 /\ gets[Len(gets)].ok
                 /\ results.text = gets[Len(gets)].text
           /\ results.outcome = "raise" =>
                 /\ Len(gets) = search_in.max_retries
                 /\ gets # <<>>
                 /\ ~gets[Len(gets)].ok
                 /\ results.error = gets[Len(gets)].error

====
